---- MODULE Spec2Model ----
(***************************************************************************)
(* Verification model of the AI travel agent:                              *)
(*   - the location resolver (agents/utils/city_standardizer.py),          *)
(*   - the tool dispatchers (agents/tools/flights_finder.py,               *)
(*     agents/tools/hotels_finder.py),                                     *)
(*   - the orchestrator graph (agents/agent.py) and its entry point        *)
(*     process_query (app.py).                                             *)
(* Text is modelled as a tuple of one-character strings, so that           *)
(* normalisation, case folding and sequence similarity are computed and    *)
(* not assumed.                                                            *)
(***************************************************************************)
EXTENDS Integers, Sequences, FiniteSets, TLC

(* ----------------------------- text ----------------------------------- *)

\* Python's None; a one-element tuple that is not a text (texts hold single characters).
None == <<"None">>

LowerCase == <<"a","b","c","d","e","f","g","h","i","j","k","l","m",
               "n","o","p","q","r","s","t","u","v","w","x","y","z">>

UpperCase == <<"A","B","C","D","E","F","G","H","I","J","K","L","M",
               "N","O","P","Q","R","S","T","U","V","W","X","Y","Z">>

Digits == <<"0","1","2","3","4","5","6","7","8","9">>

\* The characters of the model in code-point order (tab, space, ', ',', -, ., digits, A-Z, _, a-z).
CharOrder == <<"\t", " ", "'", ",", "-", ".">> \o Digits \o UpperCase \o <<"_">> \o LowerCase

Range(s) == {s[i] : i \in DOMAIN s}

Ord == [c \in Range(CharOrder) |-> CHOOSE i \in DOMAIN CharOrder : CharOrder[i] = c]

\* str.lower() and str.upper() on one character
LowerChar == [c \in Range(CharOrder) |->
                IF c \in Range(UpperCase)
                THEN LowerCase[CHOOSE i \in DOMAIN UpperCase : UpperCase[i] = c]
                ELSE c]

UpperChar == [c \in Range(CharOrder) |->
                IF c \in Range(LowerCase)
                THEN UpperCase[CHOOSE i \in DOMAIN LowerCase : LowerCase[i] = c]
                ELSE c]

lower(s) == [i \in DOMAIN s |-> LowerChar[s[i]]]

upper(s) == [i \in DOMAIN s |-> UpperChar[s[i]]]

\* \s of the regular expressions and of str.strip()
IsSpace(c) == c \in {" ", "\t"}

\* \w of the regular expressions: letters, digits and the underscore
IsWord(c) == c \in Range(LowerCase) \cup Range(UpperCase) \cup Range(Digits) \cup {"_"}

RECURSIVE lstrip(_)
lstrip(s) == IF s # <<>> /\ IsSpace(Head(s)) THEN lstrip(Tail(s)) ELSE s

RECURSIVE rstrip(_)
rstrip(s) == IF s # <<>> /\ IsSpace(s[Len(s)]) THEN rstrip(SubSeq(s, 1, Len(s) - 1)) ELSE s

strip(s) == rstrip(lstrip(s))

\* re.sub(r'[^\w\s\-\']', '', s)
RemoveSpecial(s) == SelectSeq(s, LAMBDA c : IsWord(c) \/ IsSpace(c) \/ c = "-" \/ c = "'")

\* re.sub(r'\s+', ' ', s)
RECURSIVE CollapseSpaces(_)
CollapseSpaces(s) ==
  IF s = <<>> THEN <<>>
  ELSE IF IsSpace(Head(s))
       THEN <<" ">> \o CollapseSpaces(lstrip(s))
       ELSE <<Head(s)>> \o CollapseSpaces(Tail(s))

StartsWith(s, p) == Len(s) >= Len(p) /\ SubSeq(s, 1, Len(p)) = p

\* str.replace(old, new), leftmost non-overlapping occurrences
RECURSIVE replace(_, _, _)
replace(s, old, new) ==
  IF s = <<>> THEN <<>>
  ELSE IF StartsWith(s, old)
       THEN new \o replace(SubSeq(s, Len(old) + 1, Len(s)), old, new)
       ELSE <<Head(s)>> \o replace(Tail(s), old, new)

\* Python truthiness of an Optional[str]
Truthy(s) == s # None /\ s # <<>>

(* ------------------------ CityStandardizer ---------------------------- *)

city_to_airport ==
      (<<"d","u","r","b","a","n">> :> <<"D","U","R">>)
   @@ (<<"h","a","r","a","r","e">> :> <<"H","R","E">>)
   @@ (<<"c","a","p","e"," ","t","o","w","n">> :> <<"C","P","T">>)
   @@ (<<"c","a","p","e","t","o","w","n">> :> <<"C","P","T">>)
   @@ (<<"j","o","h","a","n","n","e","s","b","u","r","g">> :> <<"J","N","B">>)
   @@ (<<"j","o","b","u","r","g">> :> <<"J","N","B">>)
   @@ (<<"j","b","u","r","g">> :> <<"J","N","B">>)
   @@ (<<"c","a","i","r","o">> :> <<"C","A","I">>)
   @@ (<<"l","a","g","o","s">> :> <<"L","O","S">>)
   @@ (<<"n","a","i","r","o","b","i">> :> <<"N","B","O">>)
   @@ (<<"c","a","s","a","b","l","a","n","c","a">> :> <<"C","M","N">>)
   @@ (<<"a","d","d","i","s"," ","a","b","a","b","a">> :> <<"A","D","D">>)
   @@ (<<"d","a","r"," ","e","s"," ","s","a","l","a","a","m">> :> <<"D","A","R">>)
   @@ (<<"a","c","c","r","a">> :> <<"A","C","C">>)
   @@ (<<"t","u","n","i","s">> :> <<"T","U","N">>)
   @@ (<<"a","l","g","i","e","r","s">> :> <<"A","L","G">>)
   @@ (<<"k","i","g","a","l","i">> :> <<"K","G","L">>)
   @@ (<<"l","u","s","a","k","a">> :> <<"L","U","N">>)
   @@ (<<"m","a","p","u","t","o">> :> <<"M","P","M">>)
   @@ (<<"w","i","n","d","h","o","e","k">> :> <<"W","D","H">>)
   @@ (<<"g","a","b","o","r","o","n","e">> :> <<"G","B","E">>)
   @@ (<<"m","a","s","e","r","u">> :> <<"M","S","U">>)
   @@ (<<"m","b","a","b","a","n","e">> :> <<"M","T","S">>)
   @@ (<<"b","l","a","n","t","y","r","e">> :> <<"B","L","Z">>)
   @@ (<<"l","i","l","o","n","g","w","e">> :> <<"L","L","W">>)
   @@ (<<"l","o","n","d","o","n">> :> <<"L","H","R">>)
   @@ (<<"p","a","r","i","s">> :> <<"C","D","G">>)
   @@ (<<"n","e","w"," ","y","o","r","k">> :> <<"J","F","K">>)
   @@ (<<"n","e","w","y","o","r","k">> :> <<"J","F","K">>)
   @@ (<<"n","y","c">> :> <<"J","F","K">>)
   @@ (<<"l","o","s"," ","a","n","g","e","l","e","s">> :> <<"L","A","X">>)
   @@ (<<"l","o","s","a","n","g","e","l","e","s">> :> <<"L","A","X">>)
   @@ (<<"c","h","i","c","a","g","o">> :> <<"O","R","D">>)
   @@ (<<"m","i","a","m","i">> :> <<"M","I","A">>)
   @@ (<<"t","o","r","o","n","t","o">> :> <<"Y","Y","Z">>)
   @@ (<<"v","a","n","c","o","u","v","e","r">> :> <<"Y","V","R">>)
   @@ (<<"s","y","d","n","e","y">> :> <<"S","Y","D">>)
   @@ (<<"m","e","l","b","o","u","r","n","e">> :> <<"M","E","L">>)
   @@ (<<"t","o","k","y","o">> :> <<"N","R","T">>)
   @@ (<<"b","e","i","j","i","n","g">> :> <<"P","E","K">>)
   @@ (<<"s","h","a","n","g","h","a","i">> :> <<"P","V","G">>)
   @@ (<<"h","o","n","g"," ","k","o","n","g">> :> <<"H","K","G">>)
   @@ (<<"h","o","n","g","k","o","n","g">> :> <<"H","K","G">>)
   @@ (<<"s","i","n","g","a","p","o","r","e">> :> <<"S","I","N">>)
   @@ (<<"b","a","n","g","k","o","k">> :> <<"B","K","K">>)
   @@ (<<"m","u","m","b","a","i">> :> <<"B","O","M">>)
   @@ (<<"d","e","l","h","i">> :> <<"D","E","L">>)
   @@ (<<"n","e","w"," ","d","e","l","h","i">> :> <<"D","E","L">>)
   @@ (<<"n","e","w","d","e","l","h","i">> :> <<"D","E","L">>)
   @@ (<<"d","u","b","a","i">> :> <<"D","X","B">>)
   @@ (<<"d","o","h","a">> :> <<"D","O","H">>)
   @@ (<<"i","s","t","a","n","b","u","l">> :> <<"I","S","T">>)
   @@ (<<"m","o","s","c","o","w">> :> <<"S","V","O">>)
   @@ (<<"a","m","s","t","e","r","d","a","m">> :> <<"A","M","S">>)
   @@ (<<"f","r","a","n","k","f","u","r","t">> :> <<"F","R","A">>)
   @@ (<<"z","u","r","i","c","h">> :> <<"Z","U","R">>)
   @@ (<<"m","a","d","r","i","d">> :> <<"M","A","D">>)
   @@ (<<"b","a","r","c","e","l","o","n","a">> :> <<"B","C","N">>)
   @@ (<<"r","o","m","e">> :> <<"F","C","O">>)
   @@ (<<"m","i","l","a","n">> :> <<"M","X","P">>)
   @@ (<<"v","i","e","n","n","a">> :> <<"V","I","E">>)
   @@ (<<"b","r","u","s","s","e","l","s">> :> <<"B","R","U">>)
   @@ (<<"s","t","o","c","k","h","o","l","m">> :> <<"A","R","N">>)
   @@ (<<"o","s","l","o">> :> <<"O","S","L">>)
   @@ (<<"c","o","p","e","n","h","a","g","e","n">> :> <<"C","P","H">>)
   @@ (<<"h","e","l","s","i","n","k","i">> :> <<"H","E","L">>)
   @@ (<<"a","t","h","e","n","s">> :> <<"A","T","H">>)
   @@ (<<"l","i","s","b","o","n">> :> <<"L","I","S">>)
   @@ (<<"d","u","b","l","i","n">> :> <<"D","U","B">>)
   @@ (<<"e","d","i","n","b","u","r","g","h">> :> <<"E","D","I">>)
   @@ (<<"m","a","n","c","h","e","s","t","e","r">> :> <<"M","A","N">>)
   @@ (<<"b","i","r","m","i","n","g","h","a","m">> :> <<"B","H","X">>)
   @@ (<<"g","l","a","s","g","o","w">> :> <<"G","L","A">>)
   @@ (<<"a","t","l","a","n","t","a">> :> <<"A","T","L">>)
   @@ (<<"b","o","s","t","o","n">> :> <<"B","O","S">>)
   @@ (<<"d","a","l","l","a","s">> :> <<"D","F","W">>)
   @@ (<<"d","e","n","v","e","r">> :> <<"D","E","N">>)
   @@ (<<"d","e","t","r","o","i","t">> :> <<"D","T","W">>)
   @@ (<<"h","o","u","s","t","o","n">> :> <<"I","A","H">>)
   @@ (<<"l","a","s"," ","v","e","g","a","s">> :> <<"L","A","S">>)
   @@ (<<"l","a","s","v","e","g","a","s">> :> <<"L","A","S">>)
   @@ (<<"v","e","g","a","s">> :> <<"L","A","S">>)
   @@ (<<"m","i","n","n","e","a","p","o","l","i","s">> :> <<"M","S","P">>)
   @@ (<<"o","r","l","a","n","d","o">> :> <<"M","C","O">>)
   @@ (<<"p","h","i","l","a","d","e","l","p","h","i","a">> :> <<"P","H","L">>)
   @@ (<<"p","h","o","e","n","i","x">> :> <<"P","H","X">>)
   @@ (<<"p","o","r","t","l","a","n","d">> :> <<"P","D","X">>)
   @@ (<<"s","a","n"," ","f","r","a","n","c","i","s","c","o">> :> <<"S","F","O">>)
   @@ (<<"s","a","n","f","r","a","n","c","i","s","c","o">> :> <<"S","F","O">>)
   @@ (<<"s","e","a","t","t","l","e">> :> <<"S","E","A">>)
   @@ (<<"w","a","s","h","i","n","g","t","o","n">> :> <<"D","C","A">>)
   @@ (<<"w","a","s","h","i","n","g","t","o","n"," ","d","c">> :> <<"D","C","A">>)
   @@ (<<"w","a","s","h","i","n","g","t","o","n","d","c">> :> <<"D","C","A">>)
   @@ (<<"j","o","'","b","u","r","g">> :> <<"J","N","B">>)
   @@ (<<"j","o","-","b","u","r","g">> :> <<"J","N","B">>)
   @@ (<<"n","e","w"," ","y","o","r","k"," ","c","i","t","y">> :> <<"J","F","K">>)
   @@ (<<"l","a">> :> <<"L","A","X">>)
   @@ (<<"s","f">> :> <<"S","F","O">>)
   @@ (<<"d","c">> :> <<"D","C","A">>)

alternative_airports ==
      (<<"l","o","n","d","o","n">> :> <<<<"L","H","R">>, <<"L","G","W">>, <<"S","T","N">>, <<"L","T","N">>>>)
   @@ (<<"n","e","w"," ","y","o","r","k">> :> <<<<"J","F","K">>, <<"L","G","A">>, <<"E","W","R">>>>)
   @@ (<<"p","a","r","i","s">> :> <<<<"C","D","G">>, <<"O","R","Y">>>>)
   @@ (<<"t","o","k","y","o">> :> <<<<"N","R","T">>, <<"H","N","D">>>>)
   @@ (<<"m","i","l","a","n">> :> <<<<"M","X","P">>, <<"L","I","N">>>>)
   @@ (<<"r","o","m","e">> :> <<<<"F","C","O">>, <<"C","I","A">>>>)
   @@ (<<"c","h","i","c","a","g","o">> :> <<<<"O","R","D">>, <<"M","D","W">>>>)
   @@ (<<"h","o","u","s","t","o","n">> :> <<<<"I","A","H">>, <<"H","O","U">>>>)
   @@ (<<"w","a","s","h","i","n","g","t","o","n">> :> <<<<"D","C","A">>, <<"I","A","D">>, <<"B","W","I">>>>)

country_to_airport ==
      (<<"e","t","h","i","o","p","i","a">> :> <<"A","D","D">>)
   @@ (<<"s","o","u","t","h"," ","a","f","r","i","c","a">> :> <<"J","N","B">>)
   @@ (<<"s","o","u","t","h","a","f","r","i","c","a">> :> <<"J","N","B">>)
   @@ (<<"k","e","n","y","a">> :> <<"N","B","O">>)
   @@ (<<"n","i","g","e","r","i","a">> :> <<"L","O","S">>)
   @@ (<<"e","g","y","p","t">> :> <<"C","A","I">>)
   @@ (<<"m","o","r","o","c","c","o">> :> <<"C","M","N">>)
   @@ (<<"g","h","a","n","a">> :> <<"A","C","C">>)
   @@ (<<"t","a","n","z","a","n","i","a">> :> <<"D","A","R">>)
   @@ (<<"z","i","m","b","a","b","w","e">> :> <<"H","R","E">>)
   @@ (<<"z","a","m","b","i","a">> :> <<"L","U","N">>)
   @@ (<<"b","o","t","s","w","a","n","a">> :> <<"G","B","E">>)
   @@ (<<"n","a","m","i","b","i","a">> :> <<"W","D","H">>)
   @@ (<<"u","g","a","n","d","a">> :> <<"E","B","B">>)
   @@ (<<"r","w","a","n","d","a">> :> <<"K","G","L">>)
   @@ (<<"s","e","n","e","g","a","l">> :> <<"D","K","R">>)
   @@ (<<"i","v","o","r","y"," ","c","o","a","s","t">> :> <<"A","B","J">>)
   @@ (<<"i","v","o","r","y","c","o","a","s","t">> :> <<"A","B","J">>)
   @@ (<<"c","o","t","e"," ","d","'","i","v","o","i","r","e">> :> <<"A","B","J">>)
   @@ (<<"c","o","t","e","d","i","v","o","i","r","e">> :> <<"A","B","J">>)
   @@ (<<"t","u","n","i","s","i","a">> :> <<"T","U","N">>)
   @@ (<<"a","l","g","e","r","i","a">> :> <<"A","L","G">>)
   @@ (<<"l","i","b","y","a">> :> <<"T","I","P">>)
   @@ (<<"s","u","d","a","n">> :> <<"K","R","T">>)
   @@ (<<"m","a","d","a","g","a","s","c","a","r">> :> <<"T","N","R">>)
   @@ (<<"m","a","u","r","i","t","i","u","s">> :> <<"M","R","U">>)
   @@ (<<"s","e","y","c","h","e","l","l","e","s">> :> <<"S","E","Z">>)
   @@ (<<"u","n","i","t","e","d"," ","s","t","a","t","e","s">> :> <<"J","F","K">>)
   @@ (<<"u","n","i","t","e","d","s","t","a","t","e","s">> :> <<"J","F","K">>)
   @@ (<<"u","s","a">> :> <<"J","F","K">>)
   @@ (<<"a","m","e","r","i","c","a">> :> <<"J","F","K">>)
   @@ (<<"u","n","i","t","e","d"," ","k","i","n","g","d","o","m">> :> <<"L","H","R">>)
   @@ (<<"u","n","i","t","e","d","k","i","n","g","d","o","m">> :> <<"L","H","R">>)
   @@ (<<"u","k">> :> <<"L","H","R">>)
   @@ (<<"b","r","i","t","a","i","n">> :> <<"L","H","R">>)
   @@ (<<"e","n","g","l","a","n","d">> :> <<"L","H","R">>)
   @@ (<<"f","r","a","n","c","e">> :> <<"C","D","G">>)
   @@ (<<"g","e","r","m","a","n","y">> :> <<"F","R","A">>)
   @@ (<<"i","t","a","l","y">> :> <<"F","C","O">>)
   @@ (<<"s","p","a","i","n">> :> <<"M","A","D">>)
   @@ (<<"n","e","t","h","e","r","l","a","n","d","s">> :> <<"A","M","S">>)
   @@ (<<"s","w","i","t","z","e","r","l","a","n","d">> :> <<"Z","U","R">>)
   @@ (<<"a","u","s","t","r","i","a">> :> <<"V","I","E">>)
   @@ (<<"b","e","l","g","i","u","m">> :> <<"B","R","U">>)
   @@ (<<"s","w","e","d","e","n">> :> <<"A","R","N">>)
   @@ (<<"n","o","r","w","a","y">> :> <<"O","S","L">>)
   @@ (<<"d","e","n","m","a","r","k">> :> <<"C","P","H">>)
   @@ (<<"f","i","n","l","a","n","d">> :> <<"H","E","L">>)
   @@ (<<"g","r","e","e","c","e">> :> <<"A","T","H">>)
   @@ (<<"p","o","r","t","u","g","a","l">> :> <<"L","I","S">>)
   @@ (<<"i","r","e","l","a","n","d">> :> <<"D","U","B">>)
   @@ (<<"r","u","s","s","i","a">> :> <<"S","V","O">>)
   @@ (<<"t","u","r","k","e","y">> :> <<"I","S","T">>)
   @@ (<<"c","h","i","n","a">> :> <<"P","E","K">>)
   @@ (<<"j","a","p","a","n">> :> <<"N","R","T">>)
   @@ (<<"i","n","d","i","a">> :> <<"D","E","L">>)
   @@ (<<"a","u","s","t","r","a","l","i","a">> :> <<"S","Y","D">>)
   @@ (<<"c","a","n","a","d","a">> :> <<"Y","Y","Z">>)
   @@ (<<"b","r","a","z","i","l">> :> <<"G","R","U">>)
   @@ (<<"a","r","g","e","n","t","i","n","a">> :> <<"E","Z","E">>)
   @@ (<<"m","e","x","i","c","o">> :> <<"M","E","X">>)
   @@ (<<"t","h","a","i","l","a","n","d">> :> <<"B","K","K">>)
   @@ (<<"s","i","n","g","a","p","o","r","e">> :> <<"S","I","N">>)
   @@ (<<"m","a","l","a","y","s","i","a">> :> <<"K","U","L">>)
   @@ (<<"i","n","d","o","n","e","s","i","a">> :> <<"C","G","K">>)
   @@ (<<"p","h","i","l","i","p","p","i","n","e","s">> :> <<"M","N","L">>)
   @@ (<<"v","i","e","t","n","a","m">> :> <<"S","G","N">>)
   @@ (<<"s","o","u","t","h"," ","k","o","r","e","a">> :> <<"I","C","N">>)
   @@ (<<"s","o","u","t","h","k","o","r","e","a">> :> <<"I","C","N">>)
   @@ (<<"u","a","e">> :> <<"D","X","B">>)
   @@ (<<"u","n","i","t","e","d"," ","a","r","a","b"," ","e","m","i","r","a","t","e","s">> :> <<"D","X","B">>)
   @@ (<<"u","n","i","t","e","d","a","r","a","b","e","m","i","r","a","t","e","s">> :> <<"D","X","B">>)
   @@ (<<"q","a","t","a","r">> :> <<"D","O","H">>)
   @@ (<<"s","a","u","d","i"," ","a","r","a","b","i","a">> :> <<"R","U","H">>)
   @@ (<<"s","a","u","d","i","a","r","a","b","i","a">> :> <<"R","U","H">>)
   @@ (<<"i","s","r","a","e","l">> :> <<"T","L","V">>)
   @@ (<<"i","r","a","n">> :> <<"I","K","A">>)
   @@ (<<"p","a","k","i","s","t","a","n">> :> <<"K","H","I">>)
   @@ (<<"b","a","n","g","l","a","d","e","s","h">> :> <<"D","A","C">>)
   @@ (<<"s","r","i"," ","l","a","n","k","a">> :> <<"C","M","B">>)
   @@ (<<"s","r","i","l","a","n","k","a">> :> <<"C","M","B">>)

city_aliases ==
      (<<"j","o","'","b","u","r","g">> :> <<"j","o","h","a","n","n","e","s","b","u","r","g">>)
   @@ (<<"j","o","b","u","r","g">> :> <<"j","o","h","a","n","n","e","s","b","u","r","g">>)
   @@ (<<"j","b","u","r","g">> :> <<"j","o","h","a","n","n","e","s","b","u","r","g">>)
   @@ (<<"c","a","p","e"," ","t","o","w","n">> :> <<"c","a","p","e"," ","t","o","w","n">>)
   @@ (<<"c","a","p","e","t","o","w","n">> :> <<"c","a","p","e"," ","t","o","w","n">>)
   @@ (<<"n","y","c">> :> <<"n","e","w"," ","y","o","r","k">>)
   @@ (<<"n","e","w"," ","y","o","r","k"," ","c","i","t","y">> :> <<"n","e","w"," ","y","o","r","k">>)
   @@ (<<"n","e","w","y","o","r","k">> :> <<"n","e","w"," ","y","o","r","k">>)
   @@ (<<"l","a">> :> <<"l","o","s"," ","a","n","g","e","l","e","s">>)
   @@ (<<"l","o","s","a","n","g","e","l","e","s">> :> <<"l","o","s"," ","a","n","g","e","l","e","s">>)
   @@ (<<"s","f">> :> <<"s","a","n"," ","f","r","a","n","c","i","s","c","o">>)
   @@ (<<"s","a","n","f","r","a","n","c","i","s","c","o">> :> <<"s","a","n"," ","f","r","a","n","c","i","s","c","o">>)
   @@ (<<"v","e","g","a","s">> :> <<"l","a","s"," ","v","e","g","a","s">>)
   @@ (<<"l","a","s","v","e","g","a","s">> :> <<"l","a","s"," ","v","e","g","a","s">>)
   @@ (<<"d","c">> :> <<"w","a","s","h","i","n","g","t","o","n">>)
   @@ (<<"w","a","s","h","i","n","g","t","o","n"," ","d","c">> :> <<"w","a","s","h","i","n","g","t","o","n">>)
   @@ (<<"w","a","s","h","i","n","g","t","o","n","d","c">> :> <<"w","a","s","h","i","n","g","t","o","n">>)
   @@ (<<"n","e","w"," ","d","e","l","h","i">> :> <<"d","e","l","h","i">>)
   @@ (<<"n","e","w","d","e","l","h","i">> :> <<"d","e","l","h","i">>)
   @@ (<<"h","o","n","g"," ","k","o","n","g">> :> <<"h","o","n","g"," ","k","o","n","g">>)
   @@ (<<"h","o","n","g","k","o","n","g">> :> <<"h","o","n","g"," ","k","o","n","g">>)

\* a faulty normalisation: the test for a missing text is left out, None.lower() raises
normalize_city_name_unguarded(city_name) ==
  IF city_name = None THEN <<"AttributeError: 'NoneType' object has no attribute 'lower'">>
  ELSE LET n1 == strip(lower(city_name))
           n2 == RemoveSpecial(n1)
           n3 == CollapseSpaces(n2)
           n4 == replace(n3, <<"s","t",".">>, <<"s","a","i","n","t">>)
           n5 == replace(n4, <<"m","t",".">>, <<"m","o","u","n","t">>)
       IN  strip(n5)

normalize_city_name(city_name) ==
  IF ~Truthy(city_name) THEN <<>>
  ELSE LET n1 == strip(lower(city_name))
           n2 == RemoveSpecial(n1)
           n3 == CollapseSpaces(n2)
           n4 == replace(n3, <<"s","t",".">>, <<"s","a","i","n","t">>)
           n5 == replace(n4, <<"m","t",".">>, <<"m","o","u","n","t">>)
       IN  strip(n5)

\* list(city_to_airport.keys()) + list(country_to_airport.keys()) + list(city_aliases.keys())
all_locations == DOMAIN city_to_airport \cup DOMAIN country_to_airport \cup DOMAIN city_aliases

(* difflib.SequenceMatcher, as used by get_close_matches (no junk; the
   autojunk heuristic needs a sequence of 200 elements or more) *)

\* length of the common run of a and b that starts at a[i], b[j] inside a[..ahi], b[..bhi]
RECURSIVE RunLen(_, _, _, _, _, _)
RunLen(a, b, i, j, ahi, bhi) ==
  IF i > ahi \/ j > bhi \/ a[i] # b[j] THEN 0
  ELSE 1 + RunLen(a, b, i + 1, j + 1, ahi, bhi)

SetMax(S) == CHOOSE x \in S : \A y \in S : y <= x

SetMin(S) == CHOOSE x \in S : \A y \in S : x <= y

\* the block <<i, j, k>> of a table of run lengths: the longest, earliest in a, then earliest in b
LongestBlock(len, k, alo, blo) ==
  IF k = 0 THEN <<alo, blo, 0>>
  ELSE LET i == SetMin({p[1] : p \in {q \in DOMAIN len : len[q] = k}})
       IN  <<i, SetMin({p[2] : p \in {q \in DOMAIN len : len[q] = k /\ q[1] = i}}), k>>

LongestIn(len, alo, blo) ==
  LongestBlock(len, SetMax({len[p] : p \in DOMAIN len} \cup {0}), alo, blo)

\* SequenceMatcher.find_longest_match on a[alo..ahi], b[blo..bhi]
find_longest_match(a, b, alo, ahi, blo, bhi) ==
  LongestIn([p \in (alo..ahi) \X (blo..bhi) |-> RunLen(a, b, p[1], p[2], ahi, bhi)], alo, blo)

\* sum of the sizes of SequenceMatcher.get_matching_blocks: the longest block m,
\* then the blocks to its left and to its right
RECURSIVE matches(_, _, _, _, _, _)
RECURSIVE MatchesAround(_, _, _, _, _, _, _)
MatchesAround(a, b, alo, ahi, blo, bhi, m) ==
  IF m[3] = 0 THEN 0
  ELSE m[3] + matches(a, b, alo, m[1] - 1, blo, m[2] - 1)
            + matches(a, b, m[1] + m[3], ahi, m[2] + m[3], bhi)

matches(a, b, alo, ahi, blo, bhi) ==
  IF alo > ahi \/ blo > bhi THEN 0
  ELSE MatchesAround(a, b, alo, ahi, blo, bhi, find_longest_match(a, b, alo, ahi, blo, bhi))

Min2(x, y) == IF x <= y THEN x ELSE y

Count(s, c) == Cardinality({i \in DOMAIN s : s[i] = c})

RECURSIVE SumOver(_, _)
SumOver(S, f) == IF S = {} THEN 0
                 ELSE LET x == CHOOSE y \in S : TRUE IN f[x] + SumOver(S \ {x}, f)

\* Ratios are kept as <<2 * matches, total length>>; _calculate_ratio gives 1.0 for length 0.
ratio(a, b) == <<2 * matches(a, b, 1, Len(a), 1, Len(b)), Len(a) + Len(b)>>

quick_ratio(a, b) ==
  LET cs == Range(a) \cap Range(b)
  IN  <<2 * SumOver(cs, [c \in cs |-> Min2(Count(a, c), Count(b, c))]), Len(a) + Len(b)>>

real_quick_ratio(a, b) == <<2 * Min2(Len(a), Len(b)), Len(a) + Len(b)>>

\* r >= cutoff for cutoff = CutoffNum / CutoffDen
CutoffNum == 8

CutoffDen == 10

\* a faulty threshold: the cutoff argument is left out, difflib takes 0.6
AtLeastCutoff_default(r) == IF r[2] = 0 THEN TRUE ELSE r[1] * 10 >= 6 * r[2]

\* a faulty threshold: a ratio equal to the cutoff is rejected
AtLeastCutoff_strict(r) == IF r[2] = 0 THEN TRUE ELSE r[1] * CutoffDen > CutoffNum * r[2]

AtLeastCutoff(r) == IF r[2] = 0 THEN TRUE ELSE r[1] * CutoffDen >= CutoffNum * r[2]

\* r1 < r2, r1 = r2 as fractions
RatioLess(r1, r2) == r1[1] * r2[2] < r2[1] * r1[2]

RatioEq(r1, r2) == r1[1] * r2[2] = r2[1] * r1[2]

\* Python's s < t on str
RECURSIVE StrLess(_, _)
StrLess(s, t) ==
  IF t = <<>> THEN FALSE
  ELSE IF s = <<>> THEN TRUE
  ELSE IF Head(s) = Head(t) THEN StrLess(Tail(s), Tail(t))
  ELSE Ord[Head(s)] < Ord[Head(t)]

\* difflib.get_close_matches(word, possibilities, n=1, cutoff=0.8): the list of
\* the best match (largest (score, x)), or the empty list
\* (score_y, y) < (score_x, x) as Python tuples
TupleLess(score_y, y, score_x, x) ==
  RatioLess(score_y, score_x) \/ (RatioEq(score_y, score_x) /\ StrLess(y, x))

\* heapq.nlargest(1, scored): scored is a set of <<score, x>>
nlargest1(scored) ==
  IF scored = {} THEN <<>>
  ELSE <<(CHOOSE s \in scored : \A t \in scored \ {s} : TupleLess(t[1], t[2], s[1], s[2]))[2]>>

get_close_matches(word, possibilities) ==
  nlargest1({<<ratio(x, word), x>> :
               x \in {y \in possibilities :
                         /\ AtLeastCutoff(real_quick_ratio(y, word))
                         /\ AtLeastCutoff(quick_ratio(y, word))
                         /\ AtLeastCutoff(ratio(y, word))}})

\* get_airport_code, the branch "if close_matches:"
CodeOfCloseMatch(close_matches) ==
  IF close_matches # <<>>
  THEN LET match == close_matches[1] IN
       IF match \in DOMAIN city_to_airport THEN city_to_airport[match]
       ELSE IF match \in DOMAIN country_to_airport THEN country_to_airport[match]
       ELSE IF /\ match \in DOMAIN city_aliases
               /\ city_aliases[match] \in DOMAIN city_to_airport
            THEN city_to_airport[city_aliases[match]]
       ELSE None
  ELSE None

\* a faulty lookup: the city table only, the later steps are missing
CodeOfNormalized_city_only(normalized) ==
  IF normalized \in DOMAIN city_to_airport THEN city_to_airport[normalized] ELSE None

\* get_airport_code from the normalized name on
CodeOfNormalized(normalized) ==
  IF normalized \in DOMAIN city_to_airport THEN city_to_airport[normalized]
  ELSE IF normalized \in DOMAIN country_to_airport THEN country_to_airport[normalized]
  ELSE IF /\ normalized \in DOMAIN city_aliases
          /\ city_aliases[normalized] \in DOMAIN city_to_airport
       THEN city_to_airport[city_aliases[normalized]]
  ELSE CodeOfCloseMatch(get_close_matches(normalized, all_locations))

get_airport_code(city_name) ==
  IF ~Truthy(city_name) THEN None
  ELSE CodeOfNormalized(normalize_city_name(city_name))

\* self.alternative_airports.get(canonical_name, [])
AlternativesOf(canonical_name) ==
  IF canonical_name \in DOMAIN alternative_airports
  THEN alternative_airports[canonical_name] ELSE <<>>

\* a faulty lookup: the normalized name is not folded through the alias table
get_alternative_airports_unfolded(city_name) ==
  AlternativesOf(normalize_city_name(city_name))

get_alternative_airports(city_name) ==
  LET normalized     == normalize_city_name(city_name)
      canonical_name == IF normalized \in DOMAIN city_aliases
                        THEN city_aliases[normalized] ELSE normalized
  IN  AlternativesOf(canonical_name)

\* re.match(r'^[A-Z]{3}$', code.upper()); $ also matches before one trailing newline,
\* which is not a character of the model
is_valid_airport_code(code) ==
  /\ Truthy(code)
  /\ Len(code) = 3
  /\ \A i \in 1..3 : upper(code)[i] \in Range(UpperCase)

\* the tuple (normalized_name, airport_code, canonical_name)
CanonicalOf(normalized) ==
  IF normalized \in DOMAIN city_aliases THEN city_aliases[normalized] ELSE normalized

get_standardized_city_info(city_name) ==
  IF ~Truthy(city_name) THEN <<None, None, None>>
  ELSE << normalize_city_name(city_name),
          get_airport_code(city_name),
          CanonicalOf(normalize_city_name(city_name)) >>

\* standardize_location_input, the part "Process as city name"; info is the
\* tuple of get_standardized_city_info(original)
StandardizeCity(original, info) ==
  [original       |-> original,
   normalized     |-> IF Truthy(info[1]) THEN info[1] ELSE <<>>,
   airport_code   |-> info[2],
   canonical_name |-> IF Truthy(info[3]) THEN info[3] ELSE <<>>,
   is_airport_code |-> FALSE,
   alternatives   |-> IF Truthy(info[2]) THEN get_alternative_airports(original) ELSE <<>>]

\* a faulty resolver: the tables are asked first, the code shape only when they miss
StandardizeStripped_tables_first(original) ==
  IF Truthy(get_airport_code(original))
  THEN StandardizeCity(original, get_standardized_city_info(original))
  ELSE IF is_valid_airport_code(original)
  THEN [original |-> original, normalized |-> upper(original),
        airport_code |-> upper(original), canonical_name |-> upper(original),
        is_airport_code |-> TRUE, alternatives |-> <<>>]
  ELSE StandardizeCity(original, get_standardized_city_info(original))

\* standardize_location_input for original = location.strip()
StandardizeStripped(original) ==
  IF is_valid_airport_code(original)
  THEN [original |-> original, normalized |-> upper(original),
        airport_code |-> upper(original), canonical_name |-> upper(original),
        is_airport_code |-> TRUE, alternatives |-> <<>>]
  ELSE StandardizeCity(original, get_standardized_city_info(original))

standardize_location_input(location) ==
  IF ~Truthy(location)
  THEN [original |-> <<>>, normalized |-> <<>>, airport_code |-> None,
        canonical_name |-> <<>>, is_airport_code |-> FALSE, alternatives |-> <<>>]
  ELSE StandardizeStripped(strip(location))


(* ------------------------------ settings ------------------------------ *)

\* what render_sidebar_settings stores for the session that asks the queries:
\* its sidebar is left as it is, Flight Type 'Round trip' and Hotel Sort By 'Default'
SessionSettings == [FLIGHTS_TYPE_OVERRIDE |-> "1", HOTELS_SORT_BY_OVERRIDE |-> ""]

\* what it stores for a session that chose 'One way' and 'Price: High to Low (3)'
OtherSettings == [FLIGHTS_TYPE_OVERRIDE |-> "2", HOTELS_SORT_BY_OVERRIDE |-> "3"]

(* ------------------------------- state -------------------------------- *)

VARIABLES
  pc,            \* where process_query is: idle, call_tools_llm, invoke_tools, END, done
  user_input,    \* the argument of the current process_query call
  thread_id,     \* number of threads created so far; the id of the current thread
  messages,      \* AgentState.messages of the current thread
  result,        \* what graph.invoke returned, after the cleaning loop of process_query
  page,          \* what process_query has written to the page, in order
  oracle_calls,  \* calls of self._tools_llm.invoke in this process_query call
  tool_execs,    \* calls of a registered tool in this process_query call
  collab_calls,  \* serpapi.search requests made in this process_query call
  llm_input,     \* the messages handed to the oracle by the latest decision step of this call
  environ,       \* os.environ of the process: the overrides written by the sidebar
  resolver_pc,   \* the location resolver called on its own: off, input, resolved, canonical, alias, again
  resolving,     \* the text handed to the resolver operations
  resolution,    \* what the resolver operations returned for it
  earlier        \* the text resolved before this one and what was returned for it

resolver_vars == <<resolver_pc, resolving, resolution, earlier>>

vars == <<pc, user_input, thread_id, messages, result, page, oracle_calls, tool_execs, collab_calls,
          llm_input, environ, resolver_pc, resolving, resolution, earlier>>


(* ------------------------- external collaborators --------------------- *)

\* What one serpapi.search call does: it returns usable records, returns a
\* response without records, raises serpapi.SerpApiError, raises another
\* exception (a timeout), or returns a response whose records are not objects.
Outcomes == {"ok", "empty", "SerpApiError", "OtherError", "malformed"}

\* Python exceptions are modelled by the text of str(e)
ValidationError == "ValidationError: params"

OtherError == "ReadTimeout: search timed out"

MalformedError == "TypeError: 'str' object does not support item assignment"

\* the result of running a piece of code that may raise; calls are the
\* serpapi.search requests it made, each with how the request ended
Return(v, calls) == [raised |-> FALSE, exc |-> "", value |-> v, calls |-> calls]

Searched(search_params, outcome) == <<[params |-> search_params, outcome |-> outcome]>>

Raise(e, calls) == [raised |-> TRUE, exc |-> e, value |-> <<>>, calls |-> calls]

\* Python values a tool returns: a list of records, or a dict
PyList(items) == [py |-> "list", items |-> items, fields |-> <<>>]

PyDict(fields) == [py |-> "dict", items |-> <<>>, fields |-> fields]

isinstance_list(v) == v.py = "list"

\* bool(v) of a list or of a dict with at least one key
PyTruthy(v) == IF v.py = "list" THEN v.items # <<>> ELSE TRUE

\* The location texts the oracle puts in ToolCalls. The resolver is a function of
\* the text alone, so its results for these texts are computed once.
Durban == <<"D","u","r","b","a","n">>

Harare == <<"H","a","r","a","r","e">>

Xyland == <<"x","y","l","a","n","d">>

JFK == <<"J","F","K">>

LHR == <<"L","H","R">>

LocationTexts == {Durban, Harare, Xyland, JFK, LHR}

AirportCodeOf == [t \in LocationTexts |-> get_airport_code(t)] @@ <<>>

LocationInfoOf == [t \in LocationTexts |-> standardize_location_input(t)] @@ <<>>

(* --------------------------- flights_finder --------------------------- *)

\* the records transform_serpapi_flights builds from a usable response for a route
ApiFlights(dep, arr) ==
  << [departure_airport |-> dep, arrival_airport |-> arr, flight_number |-> "API 100"] >>

SampleFlightNumbers == <<"6E 6214", "6E 2189", "6E 2304", "6E 459", "IX 1243">>

SampleFlightNumbersOnError == <<"6E 6214", "6E 2189", "IX 1243">>

Or(x, default) == IF Truthy(x) THEN x ELSE default

BBI == <<"B","B","I">>

VTZ == <<"V","T","Z">>

SampleFlights(numbers, dep, arr) ==
  [i \in DOMAIN numbers |-> [departure_airport |-> Or(dep, BBI),
                             arrival_airport   |-> Or(arr, VTZ),
                             flight_number     |-> numbers[i]]]

\* the f-string of an error message: its fixed part and the interpolated argument
CouldNotFind(which, text) == <<"Could not find airport code for", which, text>>

\* a faulty search_params: return_date is tested without strip()
FlightSearchParams_unstripped(params, departure_airport, arrival_airport) ==
  LET round_trip == Truthy(params.return_date)
  IN  [engine       |-> "google_flights",
       departure_id |-> departure_airport,
       arrival_id   |-> arrival_airport,
       type         |-> IF round_trip THEN "1" ELSE "2",
       return_date  |-> IF round_trip THEN params.return_date ELSE None]

\* search_params of flights_finder; a key that is not set is None
FlightSearchParams(params, departure_airport, arrival_airport) ==
  LET round_trip == Truthy(params.return_date) /\ Truthy(strip(params.return_date))
  IN  [engine       |-> "google_flights",
       departure_id |-> departure_airport,
       arrival_id   |-> arrival_airport,
       type         |-> IF round_trip THEN "1" ELSE "2",
       return_date  |-> IF round_trip THEN params.return_date ELSE None]

\* a faulty search: the two checks of the airport codes are missing
FlightSearch_unchecked(params, departure_airport, arrival_airport, outcome) ==
  LET search_params == FlightSearchParams(params, departure_airport, arrival_airport)
  IN  CASE outcome = "ok" ->
             Return(PyList(ApiFlights(departure_airport, arrival_airport)),
                    Searched(search_params, outcome))
        [] outcome \in {"empty", "malformed"} ->
             Return(PyList(SampleFlights(SampleFlightNumbers, departure_airport, arrival_airport)),
                    Searched(search_params, outcome))
        [] OTHER ->
             Return(PyList(SampleFlights(SampleFlightNumbersOnError, departure_airport, arrival_airport)),
                    Searched(search_params, outcome))

\* a faulty search: the except branch returns an empty list
FlightSearch_empty_on_error(params, departure_airport, arrival_airport, outcome) ==
  LET search_params == FlightSearchParams(params, departure_airport, arrival_airport)
  IN  IF ~Truthy(departure_airport)
      THEN Return(PyDict([error   |-> CouldNotFind("departure location", params.departure_location),
                          flights |-> <<>>]), <<>>)
      ELSE IF ~Truthy(arrival_airport)
      THEN Return(PyDict([error   |-> CouldNotFind("arrival location", params.arrival_location),
                          flights |-> <<>>]), <<>>)
      ELSE CASE outcome = "ok" ->
                  Return(PyList(ApiFlights(departure_airport, arrival_airport)),
                         Searched(search_params, outcome))
             [] outcome \in {"empty", "malformed"} ->
                  Return(PyList(SampleFlights(SampleFlightNumbers, departure_airport, arrival_airport)),
                         Searched(search_params, outcome))
             [] OTHER ->
                  Return(PyList(<<>>), Searched(search_params, outcome))

\* a faulty search: a location without an airport code is searched as BBI or VTZ
FlightSearch_defaulting(params, departure_airport, arrival_airport, outcome) ==
  LET dep == Or(departure_airport, BBI)
      arr == Or(arrival_airport, VTZ)
      search_params == FlightSearchParams(params, dep, arr)
  IN  CASE outcome = "ok" ->
             Return(PyList(ApiFlights(dep, arr)), Searched(search_params, outcome))
        [] outcome \in {"empty", "malformed"} ->
             Return(PyList(SampleFlights(SampleFlightNumbers, departure_airport, arrival_airport)),
                    Searched(search_params, outcome))
        [] OTHER ->
             Return(PyList(SampleFlights(SampleFlightNumbersOnError, departure_airport, arrival_airport)),
                    Searched(search_params, outcome))

\* flights_finder once both locations went through get_airport_code
FlightSearch(params, departure_airport, arrival_airport, outcome) ==
  LET search_params == FlightSearchParams(params, departure_airport, arrival_airport)
  IN  IF ~Truthy(departure_airport)
      THEN Return(PyDict([error   |-> CouldNotFind("departure location", params.departure_location),
                          flights |-> <<>>]), <<>>)
      ELSE IF ~Truthy(arrival_airport)
      THEN Return(PyDict([error   |-> CouldNotFind("arrival location", params.arrival_location),
                          flights |-> <<>>]), <<>>)
      ELSE CASE outcome = "ok" ->
                  Return(PyList(ApiFlights(departure_airport, arrival_airport)),
                         Searched(search_params, outcome))
             [] outcome \in {"empty", "malformed"} ->  \* transform skips every record
                  Return(PyList(SampleFlights(SampleFlightNumbers, departure_airport, arrival_airport)),
                         Searched(search_params, outcome))
             [] OTHER ->  \* except Exception
                  Return(PyList(SampleFlights(SampleFlightNumbersOnError, departure_airport, arrival_airport)),
                         Searched(search_params, outcome))

\* a faulty call: the two airports change places
flights_finder_swapped(params, outcome) ==
  FlightSearch(params, AirportCodeOf[params.arrival_location],
               AirportCodeOf[params.departure_location], outcome)

flights_finder(params, outcome) ==
  FlightSearch(params, AirportCodeOf[params.departure_location],
               AirportCodeOf[params.arrival_location], outcome)

(* --------------------------- hotels_finder ---------------------------- *)

ApiHotels(q) == << [name |-> "API Hotel", location |-> q] >>

SampleHotelNames == <<"Grand Plaza Hotel", "City Center Inn", "Luxury Resort & Spa">>

SampleHotels(location) ==
  [i \in DOMAIN SampleHotelNames |-> [name |-> SampleHotelNames[i], location |-> location]]

\* search_params of hotels_finder, the sidebar override of sort_by included
HotelSearchParams(params, location_info) ==
  [engine  |-> "google_hotels",
   q       |-> Or(location_info.canonical_name, Or(location_info.normalized, params.location)),
   sort_by |-> IF environ.HOTELS_SORT_BY_OVERRIDE # "" THEN environ.HOTELS_SORT_BY_OVERRIDE
               ELSE params.sort_by]

\* properties[:5]
FirstN(s, n) == SubSeq(s, 1, Min2(Len(s), n))

HotelsShown == 5

\* hotels_finder from serpapi.search on
HotelSearch(params, search_params, outcome) ==
      CASE outcome = "ok" ->
             Return(PyList(FirstN(ApiHotels(params.location), HotelsShown)), Searched(search_params, outcome))
        [] outcome = "empty" ->
             Return(PyList(FirstN(SampleHotels(params.location), HotelsShown)), Searched(search_params, outcome))
        [] outcome = "SerpApiError" ->
             Return(PyList(SampleHotels(params.location)), Searched(search_params, outcome))
        [] outcome = "OtherError" ->
             Raise(OtherError, Searched(search_params, outcome))
        [] outcome = "malformed" ->
             Raise(MalformedError, Searched(search_params, outcome))


hotels_finder(params, outcome) ==
  HotelSearch(params, HotelSearchParams(params, LocationInfoOf[params.location]), outcome)

(* ------------------------------ bounds -------------------------------- *)

\* tool rounds the oracle asks for in one process_query call before it stops
MaxRounds == 2

\* process_query calls in one behaviour
MaxQueries == 2

(* --------------------------- oracle inputs ---------------------------- *)

NoDate == <<>>

\* return_date as the oracle may fill it: absent is None, a date, blanks only
ReturnDate == <<"2","0","2","4","-","0","6","-","2","9">>

BlankDate == <<" ", " ">>

FlightParams(dep, arr, ret) ==
  [departure_location |-> dep, arrival_location |-> arr, return_date |-> ret]

\* sort_by has the default of HotelsInput: highest rating
HotelParams(loc) == [location |-> loc, sort_by |-> "8"]

\* schema_ok: the arguments pass the pydantic args_schema of the tool
Args(params) == [schema_ok |-> TRUE, params |-> params]

BadArgs == [schema_ok |-> FALSE, params |-> <<>>]

\* the (name, args) pairs the oracle asks for
FlightDurbanHarare == [name |-> "flights_finder", args |-> Args(FlightParams(Durban, Harare, NoDate))]

FlightXylandHarare == [name |-> "flights_finder", args |-> Args(FlightParams(Xyland, Harare, NoDate))]

\* both locations given as airport codes
FlightJfkLhr == [name |-> "flights_finder", args |-> Args(FlightParams(JFK, LHR, NoDate))]

FlightWithReturn == [name |-> "flights_finder", args |-> Args(FlightParams(Durban, Harare, ReturnDate))]

FlightBlankReturn == [name |-> "flights_finder", args |-> Args(FlightParams(Durban, Harare, BlankDate))]

FlightAbsentReturn == [name |-> "flights_finder", args |-> Args(FlightParams(Durban, Harare, None))]

FlightBadArgs == [name |-> "flights_finder", args |-> BadArgs]

HotelDurban == [name |-> "hotels_finder", args |-> Args(HotelParams(Durban))]

HotelXyland == [name |-> "hotels_finder", args |-> Args(HotelParams(Xyland))]

\* a name that is not in the registry
WeatherFinder == [name |-> "weather_finder", args |-> Args(HotelParams(Durban))]

ToolRequests == {FlightDurbanHarare, FlightXylandHarare, FlightJfkLhr, FlightWithReturn,
                 FlightBlankReturn, FlightAbsentReturn, FlightBadArgs,
                 HotelDurban, HotelXyland, WeatherFinder}

\* the lists of requests the oracle puts in one message: every single request,
\* and rounds of several calls that mix the cases
OracleRequests ==
  {<<r>> : r \in ToolRequests}
  \cup { <<FlightXylandHarare, HotelXyland>>,
         <<FlightDurbanHarare, FlightBadArgs, HotelDurban>>,
         <<FlightXylandHarare, WeatherFinder, HotelDurban>> }

\* what the oracle asks for once it has seen tool results: one more search
FollowUpRequests == { <<HotelDurban>> }

\* Message texts are sequences of tokens: words, HTML tags, code spans, spaces.
\* A code span stands for text between single backticks.
CodeSpan == "(backtick)x(backtick)"

AnswerTexts == { <<"Here are your options">>,
                 <<" ", "<b>", "Top picks", "</b>", CodeSpan>> }

NoContent == <<>>

\* what the text area hands to process_query: nothing, blanks only, a query
UserInputs == { <<>>, <<" ">>, <<"flights from Durban to Harare on 2024-06-22">> }

OracleFaults == {"ResourceExhausted: quota", "ServiceUnavailable: 503"}

(* ------------------------------ messages ------------------------------ *)

HumanMessage(content) ==
  [type |-> "human", content |-> content, tool_calls |-> <<>>, tool_call_id |-> None, name |-> None]

AIMessage(content, tool_calls) ==
  [type |-> "ai", content |-> content, tool_calls |-> tool_calls, tool_call_id |-> None, name |-> None]

ToolMessage(tool_call_id, name, content) ==
  [type |-> "tool", content |-> content, tool_calls |-> <<>>, tool_call_id |-> tool_call_id, name |-> name]

SystemMessage(content) ==
  [type |-> "system", content |-> content, tool_calls |-> <<>>, tool_call_id |-> None, name |-> None]

TOOLS_SYSTEM_PROMPT == <<"You are a smart travel agency">>

\* json.dumps / json.loads: a JSON text is the tagged value it encodes
json_dumps(v) == <<"json", v>>

IsJson(content) == Len(content) = 2 /\ content[1] = "json"

json_loads(content) == content[2]

BadToolName == <<"bad tool name, retry">>

\* the registry self._tools
TOOLS == {"flights_finder", "hotels_finder"}

\* self._tools[name].invoke(args): schema validation, then the tool
ToolInvoke(name, args, outcome) ==
  IF ~args.schema_ok THEN Raise(ValidationError, <<>>)
  ELSE IF name = "flights_finder" THEN flights_finder(args.params, outcome)
  ELSE hotels_finder(args.params, outcome)

(* ---------------------------- initial state --------------------------- *)

Init ==
  /\ pc = "idle"
  /\ user_input = <<>>
  /\ thread_id = 0
  /\ messages = <<>>
  /\ result = <<>>
  /\ page = <<>>
  /\ oracle_calls = 0
  /\ tool_execs = 0
  /\ collab_calls = <<>>
  /\ llm_input = <<>>
  /\ environ = SessionSettings
  /\ resolver_pc = "off"
  /\ resolving = <<>>
  /\ resolution = <<>>
  /\ earlier = <<>>


(* --------------------------- clean_html_content ----------------------- *)

HtmlTags == {"<b>", "</b>", "<pre>", "</pre>"}

\* soup.find_all('pre') ... decompose(): a pre element goes with its content;
\* html.parser closes an unclosed element at the end of the text
RECURSIVE DropPre(_, _)
DropPre(s, inside) ==
  IF s = <<>> THEN <<>>
  ELSE IF Head(s) = "<pre>" THEN DropPre(Tail(s), TRUE)
  ELSE IF Head(s) = "</pre>" THEN DropPre(Tail(s), FALSE)
  ELSE IF inside THEN DropPre(Tail(s), TRUE)
  ELSE <<Head(s)>> \o DropPre(Tail(s), FALSE)

clean_html_content(content) ==
  IF content = <<>> THEN content
  ELSE LET no_pre  == DropPre(content, FALSE)
           text    == SelectSeq(no_pre, LAMBDA t : t \notin HtmlTags)
           no_code == SelectSeq(text, LAMBDA t : t # CodeSpan)
       IN  strip(no_code)

(* ------------------------------ the graph ----------------------------- *)

END == "END"

Last(s) == s[Len(s)]

\* a faulty edge: len(tool_calls) > 1 in place of > 0
exists_action_more_than_one(state_messages) ==
  IF Len(Last(state_messages).tool_calls) <= 1 THEN END ELSE "invoke_tools"

\* a faulty edge: the orchestrator ends the loop once a tool round has run
exists_action_capped(state_messages) ==
  IF Len(Last(state_messages).tool_calls) = 0 \/ Len(state_messages) > 3
  THEN END ELSE "invoke_tools"

\* Agent.exists_action: the conditional edge after call_tools_llm
exists_action(state_messages) ==
  IF Len(Last(state_messages).tool_calls) = 0 THEN END ELSE "invoke_tools"

\* the ToolCalls of the n-th oracle message; ids are unique within the thread
MakeToolCalls(requests, n) ==
  [i \in DOMAIN requests |-> [id |-> <<n, i>>, name |-> requests[i].name, args |-> requests[i].args]]

\* The oracle stops asking for tools after MaxRounds rounds; the graph has no such guard.
OracleReplies ==
  {AIMessage(c, <<>>) : c \in AnswerTexts}
  \cup {AIMessage(NoContent, MakeToolCalls(r, oracle_calls + 1)) :
          r \in IF oracle_calls = 0 THEN OracleRequests
                ELSE IF oracle_calls < MaxRounds THEN FollowUpRequests
                ELSE {}}

\* the except branch of process_query: st.error(f'Error: {e}')
ErrorCard(e) == [kind |-> "error", text |-> <<"Error: ", e>>, data |-> <<>>]

\* the else branch of process_query: st.error('Please enter a travel query.')
MissingCard == [kind |-> "error", text |-> <<"Please enter a travel query.">>, data |-> <<>>]

\* invoke_tools: the loop over tool_calls up to the first tool that raises.
\* acc holds the local list results and what the tools did so far.
RECURSIVE RunTools(_, _, _, _)
RECURSIVE AfterTool(_, _, _, _, _)
\* the rest of the loop body once tool i has returned r or raised
AfterTool(tool_calls, outcomes, i, acc, r) ==
  IF r.raised
  THEN [acc EXCEPT !.raised = TRUE, !.exc = r.exc, !.execs = @ + 1, !.calls = @ \o r.calls]
  ELSE RunTools(tool_calls, outcomes, i + 1,
                [acc EXCEPT !.results = Append(@, ToolMessage(tool_calls[i].id, tool_calls[i].name,
                                                              json_dumps(r.value))),
                            !.execs = @ + 1, !.calls = @ \o r.calls])

\* a faulty loop: a bad tool name is skipped without a result message
RunTools_skip_bad_name(tool_calls, outcomes, i, acc) ==
  IF i > Len(tool_calls) THEN acc
  ELSE IF tool_calls[i].name \notin TOOLS
       THEN RunTools(tool_calls, outcomes, i + 1, acc)
       ELSE AfterTool(tool_calls, outcomes, i, acc,
                      ToolInvoke(tool_calls[i].name, tool_calls[i].args, outcomes[i]))

\* a faulty loop: no name check, self._tools[name] raises KeyError
RunTools_KeyError(tool_calls, outcomes, i, acc) ==
  IF i > Len(tool_calls) THEN acc
  ELSE IF tool_calls[i].name \notin TOOLS
       THEN [acc EXCEPT !.raised = TRUE, !.exc = "KeyError: name"]
       ELSE AfterTool(tool_calls, outcomes, i, acc,
                      ToolInvoke(tool_calls[i].name, tool_calls[i].args, outcomes[i]))

RunTools(tool_calls, outcomes, i, acc) ==
  IF i > Len(tool_calls) THEN acc
  ELSE IF tool_calls[i].name \notin TOOLS
       THEN RunTools(tool_calls, outcomes, i + 1,
                     [acc EXCEPT !.results = Append(@, ToolMessage(tool_calls[i].id, tool_calls[i].name,
                                                                   BadToolName))])
       ELSE AfterTool(tool_calls, outcomes, i, acc,
                      ToolInvoke(tool_calls[i].name, tool_calls[i].args, outcomes[i]))

NoRun == [raised |-> FALSE, exc |-> "", results |-> <<>>, execs |-> 0, calls |-> <<>>]

(* ------------------------------ actions ------------------------------- *)

\* a script run of the session with the submit button pressed: main() stores the
\* sidebar settings, then process_query runs up to graph.invoke, or takes its
\* else branch for a falsy input
process_query(input) ==
  /\ pc \in {"idle", "done"}
  /\ user_input' = input
  /\ result' = <<>>
  /\ oracle_calls' = 0
  /\ tool_execs' = 0
  /\ collab_calls' = <<>>
  /\ llm_input' = <<>>
  /\ environ' = SessionSettings
  /\ IF input # <<>>
     THEN /\ thread_id < MaxQueries
          /\ thread_id' = thread_id + 1
          /\ messages' = <<HumanMessage(input)>>
          /\ page' = <<>>
          /\ pc' = "call_tools_llm"
     ELSE /\ page' = <<MissingCard>>
          /\ messages' = <<>>
          /\ pc' = "done"
          /\ UNCHANGED thread_id
  /\ UNCHANGED resolver_vars

\* a faulty node: the system prompt is stored in the history with the reply
call_tools_llm_stores_prompt(message) ==
  /\ pc = "call_tools_llm"
  /\ oracle_calls' = oracle_calls + 1
  /\ llm_input' = <<SystemMessage(TOOLS_SYSTEM_PROMPT)>> \o messages
  /\ messages' = llm_input' \o <<message>>
  /\ pc' = exists_action(messages')
  /\ UNCHANGED <<user_input, thread_id, result, page, tool_execs, collab_calls, environ>>
  /\ UNCHANGED resolver_vars

\* node call_tools_llm, the oracle answers; then the conditional edge
call_tools_llm_ok(message) ==
  /\ pc = "call_tools_llm"
  /\ oracle_calls' = oracle_calls + 1
  /\ llm_input' = <<SystemMessage(TOOLS_SYSTEM_PROMPT)>> \o messages
  /\ messages' = messages \o <<message>>
  /\ pc' = exists_action(messages')
  /\ UNCHANGED <<user_input, thread_id, result, page, tool_execs, collab_calls, environ>>
  /\ UNCHANGED resolver_vars

\* a faulty node: the exception of the oracle is swallowed and the graph ends
call_tools_llm_swallow(fault) ==
  /\ pc = "call_tools_llm"
  /\ oracle_calls' = oracle_calls + 1
  /\ llm_input' = <<SystemMessage(TOOLS_SYSTEM_PROMPT)>> \o messages
  /\ pc' = END
  /\ UNCHANGED <<user_input, thread_id, messages, result, page, tool_execs, collab_calls, environ>>
  /\ UNCHANGED resolver_vars

\* node call_tools_llm, the oracle raises: graph.invoke raises into process_query
call_tools_llm_raise(fault) ==
  /\ pc = "call_tools_llm"
  /\ oracle_calls' = oracle_calls + 1
  /\ llm_input' = <<SystemMessage(TOOLS_SYSTEM_PROMPT)>> \o messages
  /\ page' = page \o <<ErrorCard(fault)>>
  /\ pc' = "done"
  /\ UNCHANGED <<user_input, thread_id, messages, result, tool_execs, collab_calls, environ>>
  /\ UNCHANGED resolver_vars

call_tools_llm ==
  \/ \E message \in OracleReplies : call_tools_llm_ok(message)
  \/ \E fault \in OracleFaults : call_tools_llm_raise(fault)

\* a faulty node: the results of the round replace the history
invoke_tools_end_replaces(run) ==
  /\ tool_execs' = tool_execs + run.execs
  /\ collab_calls' = collab_calls \o run.calls
  /\ IF run.raised
     THEN /\ page' = page \o <<ErrorCard(run.exc)>>
          /\ pc' = "done"
          /\ UNCHANGED messages
     ELSE /\ messages' = <<messages[1], Last(messages)>> \o run.results
          /\ pc' = "call_tools_llm"
          /\ UNCHANGED page

\* a faulty node: the results computed before the raising tool are kept
invoke_tools_end_partial(run) ==
  /\ tool_execs' = tool_execs + run.execs
  /\ collab_calls' = collab_calls \o run.calls
  /\ messages' = messages \o run.results
  /\ IF run.raised
     THEN /\ page' = page \o <<ErrorCard(run.exc)>>
          /\ pc' = "done"
     ELSE /\ pc' = "call_tools_llm"
          /\ UNCHANGED page

\* the end of node invoke_tools: it returns {'messages': results} and the edge
\* leads back to call_tools_llm, or a tool raised and graph.invoke raises
invoke_tools_end(run) ==
  /\ tool_execs' = tool_execs + run.execs
  /\ collab_calls' = collab_calls \o run.calls
  /\ IF run.raised
     THEN /\ page' = page \o <<ErrorCard(run.exc)>>
          /\ pc' = "done"
          /\ UNCHANGED messages
     ELSE /\ messages' = messages \o run.results
          /\ pc' = "call_tools_llm"
          /\ UNCHANGED page

invoke_tools ==
  /\ pc = "invoke_tools"
  /\ \E outcomes \in [DOMAIN Last(messages).tool_calls -> Outcomes] :
       invoke_tools_end(RunTools(Last(messages).tool_calls, outcomes, 1, NoRun))
  /\ UNCHANGED <<user_input, thread_id, result, oracle_calls, llm_input, environ>>
  /\ UNCHANGED resolver_vars


\* a script run of another session of the same process: render_sidebar_settings
\* stores that session's choices in os.environ. It may run at any moment; the
\* tools are the only readers, a write before the decision step is still in
\* place when the tool step begins and a write after the last tool step is
\* overwritten by the next script run of this session, so the write is placed
\* where the tool step is about to run.
render_sidebar_settings(settings) ==
  /\ pc = "invoke_tools"
  /\ environ # settings
  /\ environ' = settings
  /\ UNCHANGED <<pc, user_input, thread_id, messages, result, page, oracle_calls, tool_execs,
                 collab_calls, llm_input>>
  /\ UNCHANGED resolver_vars

(* ----------------------- process_query, after the graph --------------- *)

\* a faulty loop: the cleaned text is not written back to the message
CleanMessages_not_written(ms) == ms

\* the cleaning loop: tool outputs of the two registered tools are kept as they are
CleanMessages(ms) ==
  [i \in DOMAIN ms |->
     IF ms[i].name \in TOOLS THEN ms[i]
     ELSE [ms[i] EXCEPT !.content = clean_html_content(@)]]

NoData == PyList(<<>>)

\* the scan for tool messages: the last parseable output of each tool wins
RECURSIVE ScanToolMessages(_, _, _)
ScanToolMessages(ms, i, acc) ==
  IF i > Len(ms) THEN acc
  ELSE LET m == ms[i] IN
       IF m.name \in TOOLS /\ IsJson(m.content)
       THEN LET data == json_loads(m.content)
                acc1 == IF m.name = "flights_finder"
                        THEN [acc EXCEPT !.flights_data = data]
                        ELSE [acc EXCEPT !.hotels_data = data]
            IN  ScanToolMessages(ms, i + 1,
                  [acc1 EXCEPT !.has_structured_data = @ \/ isinstance_list(data)])
       ELSE ScanToolMessages(ms, i + 1, acc)

\* cards are cut at six: flights_data[:6], hotels_data[:6]
CardLimit == 6

SliceError == "TypeError: dict is not sliceable"

Header == [kind |-> "header", text |-> <<"Your Travel Results">>, data |-> <<>>]

NoFlightsFound == [kind |-> "card", text |-> <<"No Flights Found">>, data |-> <<>>]

NoHotelsFound == [kind |-> "card", text |-> <<"No Hotels Found">>, data |-> <<>>]

TravelInformation == [kind |-> "card", text |-> <<"Travel Information">>, data |-> <<>>]

Cards(kind, data) ==
  LET shown == FirstN(data.items, CardLimit)
  IN  [i \in DOMAIN shown |-> [kind |-> kind, text |-> <<>>, data |-> shown[i]]]

\* what the try block writes after the header, and whether it raised on the way
RenderResults(ms) ==
  LET scan == ScanToolMessages(ms, 1,
                [has_structured_data |-> FALSE, flights_data |-> NoData, hotels_data |-> NoData])
      f == scan.flights_data
      h == scan.hotels_data
  IN  IF scan.has_structured_data /\ (PyTruthy(f) \/ PyTruthy(h))
      THEN IF PyTruthy(f) /\ ~isinstance_list(f)
           THEN [raised |-> TRUE, exc |-> SliceError, items |-> <<>>]
           ELSE LET flight_part == IF PyTruthy(f) THEN Cards("flight_card", f)
                                   ELSE <<NoFlightsFound>>
                IN  IF PyTruthy(h) /\ ~isinstance_list(h)
                    THEN [raised |-> TRUE, exc |-> SliceError, items |-> flight_part]
                    ELSE [raised |-> FALSE, exc |-> "",
                          items |-> flight_part \o (IF PyTruthy(h) THEN Cards("hotel_card", h)
                                                    ELSE <<NoHotelsFound>>)]
      ELSE [raised |-> FALSE, exc |-> "", items |-> <<TravelInformation>>]

\* the cards written, then the error card of the except branch if rendering raised
Rendered(r) == r.items \o (IF r.raised THEN <<ErrorCard(r.exc)>> ELSE <<>>)

\* process_query after graph.invoke has returned
process_query_render ==
  /\ pc = END
  /\ result' = CleanMessages(messages)
  /\ page' = page \o <<Header>> \o Rendered(RenderResults(result'))
  /\ pc' = "done"
  /\ UNCHANGED <<user_input, thread_id, messages, oracle_calls, tool_execs, collab_calls, llm_input, environ>>
  /\ UNCHANGED resolver_vars

Next ==
  \/ \E input \in UserInputs : process_query(input)
  \/ call_tools_llm
  \/ invoke_tools
  \/ process_query_render
  \/ render_sidebar_settings(OtherSettings)

Spec == Init /\ [][Next]_vars

\* a step of a process_query call that has started
RunningStep == call_tools_llm \/ invoke_tools \/ process_query_render

\* process_query is a synchronous call: once started it runs on until it returns
FairSpec == Spec /\ WF_vars(RunningStep)

TypeOK ==
  /\ pc \in {"idle", "call_tools_llm", "invoke_tools", END, "done"}
  /\ thread_id \in 0..MaxQueries
  /\ oracle_calls \in 0..(MaxRounds + 1)
  /\ tool_execs \in Nat

(* ===================== the location resolver on its own ================ *)

\* the documented scenarios
ScenarioTexts ==
  { <<"J","o","'","b","u","r","g">>,
    <<"j","o","h","a","n","n","e","s","b","u","r","g">>,
    <<"E","t","h","i","o","p","i","a">>,
    <<"d","u","r","b","a","n">>,
    <<"h","a","r","a","r","e">>,
    <<"x","y","l","a","n","d">> }

\* three letters in either case, table keys (nyc, usa, uae) among them
ThreeLetterTexts ==
  { <<a, b, c>> : a \in {"n", "N", "u"}, b \in {"y", "s", "a"}, c \in {"c", "a", "E"} }

\* airport codes as typed, with blanks around them
PaddedCodeTexts ==
  { <<" ","j","f","k"," ">>,
    <<"L","H","R">>,
    <<"L","h","r","\t">>,
    <<" "," ","n","y","c">> }

\* texts that normalisation changes
PunctuatedTexts ==
  { <<"u",".","s",".","a">>,
    <<"u","a","e",".">>,
    <<"S","t","."," ","L","o","u","i","s">>,
    <<"M","t","."," ","F","u","j","i">>,
    <<" "," ","N","e","w"," "," "," ","Y","o","r","k"," ">>,
    <<"N","e","w","-","Y","o","r","k",",">>,
    <<"a","_","b">>,
    <<".",".",".">>,
    <<"C","A","P","E"," ","T","O","W","N">> }

\* misspelt names, at similarity 0.8 to a key, above it and below it
MisspeltTexts ==
  { <<"t","o","k","i","o">>,
    <<"p","a","r","o","s">>,
    <<"l","a","g","o","z">>,
    <<"d","u","r","b","a","m">>,
    <<"e","t","h","i","o","p","a">>,
    <<"r","o","m","w">>,
    <<"o","s","l","q">>,
    <<"k","a","i","r">>,
    <<"p","x","r","x","s">>,
    <<"l","h","r">> }

\* no text at all: the empty text, None, blanks only
EmptyTexts == { <<>>, None, <<" ", " ">> }

ResolverInputs ==
  DOMAIN city_aliases \cup ScenarioTexts \cup ThreeLetterTexts \cup PaddedCodeTexts
  \cup PunctuatedTexts \cup MisspeltTexts \cup EmptyTexts

\* a faulty resolver: the list of alternatives is shared between calls and
\* grows with every call
ResolveAll_remembering(text) ==
  [normalized   |-> normalize_city_name(text),
   airport_code |-> get_airport_code(text),
   city_info    |-> get_standardized_city_info(text),
   alternatives |-> (IF resolver_pc = "input" THEN <<>> ELSE resolution.alternatives)
                    \o get_alternative_airports(text),
   valid        |-> is_valid_airport_code(text),
   info         |-> standardize_location_input(text)]

\* the six public operations of CityStandardizer applied to one text
ResolveAll(text) ==
  [normalized   |-> normalize_city_name(text),
   airport_code |-> get_airport_code(text),
   city_info    |-> get_standardized_city_info(text),
   alternatives |-> get_alternative_airports(text),
   valid        |-> is_valid_airport_code(text),
   info         |-> standardize_location_input(text)]

ResolverInit ==
  /\ pc = "idle"
  /\ user_input = <<>>
  /\ thread_id = 0
  /\ messages = <<>>
  /\ result = <<>>
  /\ page = <<>>
  /\ oracle_calls = 0
  /\ tool_execs = 0
  /\ collab_calls = <<>>
  /\ llm_input = <<>>
  /\ environ = SessionSettings
  /\ resolver_pc = "input"
  /\ resolving \in ResolverInputs
  /\ resolution = <<>>
  /\ earlier = <<>>

app_vars == <<pc, user_input, thread_id, messages, result, page, oracle_calls, tool_execs, collab_calls,
              llm_input, environ>>

\* a caller applies the operations to its text
resolve ==
  /\ resolver_pc = "input"
  /\ resolution' = ResolveAll(resolving)
  /\ resolver_pc' = "resolved"
  /\ UNCHANGED <<resolving, earlier, app_vars>>

\* the caller feeds the canonical name of a resolution back into the resolver
resolve_canonical ==
  /\ resolver_pc = "resolved"
  /\ resolution.info.canonical_name # <<>>
  /\ earlier' = [text |-> resolving, resolution |-> resolution]
  /\ resolving' = resolution.info.canonical_name
  /\ resolution' = ResolveAll(resolving')
  /\ resolver_pc' = "canonical"
  /\ UNCHANGED app_vars

\* the caller resolves the canonical city that the alias table gives for an alias
resolve_alias_target ==
  /\ resolver_pc = "resolved"
  /\ resolving \in DOMAIN city_aliases
  /\ earlier' = [text |-> resolving, resolution |-> resolution]
  /\ resolving' = city_aliases[resolving]
  /\ resolution' = ResolveAll(resolving')
  /\ resolver_pc' = "alias"
  /\ UNCHANGED app_vars

\* after other resolutions, and after any script run that stored settings in
\* os.environ, the caller resolves its first text once more
resolve_again(settings) ==
  /\ resolver_pc \in {"canonical", "alias"}
  /\ environ' = settings
  /\ resolving' = earlier.text
  /\ resolution' = ResolveAll(resolving')
  /\ resolver_pc' = "again"
  /\ UNCHANGED <<earlier, pc, user_input, thread_id, messages, result, page, oracle_calls,
                 tool_execs, collab_calls, llm_input>>

ResolverNext ==
  \/ resolve
  \/ resolve_canonical
  \/ resolve_alias_target
  \/ \E settings \in {SessionSettings, OtherSettings} : resolve_again(settings)

ResolverSpec == ResolverInit /\ [][ResolverNext]_vars

(* ====================== properties of the tool loop ==================== *)

\* the ToolCalls a step of invoke_tools works on
PendingCalls == Last(messages).tool_calls

\* positions of the oracle messages in a message list
AiPositions(ms) == {j \in DOMAIN ms : ms[j].type = "ai"}

\* the position of the latest oracle message before position i
AiBefore(ms, i) == SetMax({j \in AiPositions(ms) : j < i})

\* the oracle answered in this step: its message is the new last message
OracleAnswered == Len(messages') = Len(messages) + 1 /\ Last(messages').type = "ai"

\* a new process_query call starts a fresh thread
FreshCall ==
  /\ pc' = "call_tools_llm"
  /\ thread_id' = thread_id + 1
  /\ oracle_calls' = 0
  /\ tool_execs' = 0
  /\ Len(messages') = 1

Registered(tool_calls) == {i \in DOMAIN tool_calls : tool_calls[i].name \in TOOLS}

\* C1: after a decision step the graph goes to the tool step exactly when the
\* latest oracle message carries one or more ToolCalls and to END exactly when
\* it carries none; the only edge out of the tool step leads back to the
\* decision step (a step that raises takes no edge: the exception ends the
\* process call with an error); once the graph is at END or the call is done,
\* no decision or tool step runs until a new process call starts.
C1_GraphTransitions ==
  [][ /\ (pc = "call_tools_llm" /\ pc' # pc) =>
           /\ pc' \in {"invoke_tools", END, "done"}
           /\ pc' = "invoke_tools" <=> (OracleAnswered /\ Len(Last(messages').tool_calls) >= 1)
           /\ pc' = END <=> (OracleAnswered /\ Len(Last(messages').tool_calls) = 0)
      /\ (pc = "invoke_tools" /\ pc' # pc) =>
           \/ pc' = "call_tools_llm" /\ oracle_calls' = oracle_calls
           \/ pc' = "done" /\ Last(page').kind = "error" /\ messages' = messages
      /\ (pc = END /\ pc' # pc) =>
           pc' = "done" /\ messages' = messages
                        /\ oracle_calls' = oracle_calls /\ tool_execs' = tool_execs
      /\ (pc = "done" /\ pc' # pc) => FreshCall
    ]_vars

\* a run whose loop went round: two decisions, a tool executed, then END
C1_Witness ==
  pc = END /\ oracle_calls = 2 /\ tool_execs >= 1 /\ Len(messages) >= 4

\* the tool messages after the oracle message at position j
ToolMessagesAfter(ms, j) ==
  {i \in DOMAIN ms : i > j /\ ms[i].type = "tool" /\ AiBefore(ms, i) = j}

\* the tool message at position i answers the ToolCall at the same position of
\* the latest oracle message before it
AnswersItsCall(ms, i) ==
  LET j == AiBefore(ms, i)
      k == i - j
  IN  /\ {a \in AiPositions(ms) : a < i} # {}
      /\ j < i
      /\ k \in DOMAIN ms[j].tool_calls
      /\ ms[i].tool_call_id = ms[j].tool_calls[k].id
      /\ ms[i].name = ms[j].tool_calls[k].name

\* C2: every tool message answers one ToolCall of the immediately preceding
\* oracle message, in the order of the ToolCalls, with that call's id and tool
\* name; and whenever the decision step is about to run, every oracle message
\* with ToolCalls is followed by exactly one tool message per ToolCall, so the
\* decision step never sees a partly executed round.
C2_OneResultPerCall ==
  /\ \A i \in DOMAIN messages : messages[i].type = "tool" => AnswersItsCall(messages, i)
  /\ pc = "call_tools_llm" =>
       \A j \in AiPositions(messages) :
          /\ Len(messages) >= j + Len(messages[j].tool_calls)
          /\ ToolMessagesAfter(messages, j) = (j + 1)..(j + Len(messages[j].tool_calls))

\* the decision step is about to see a round of three ToolCalls, all answered
C2_Witness ==
  /\ pc = "call_tools_llm"
  /\ \E j \in AiPositions(messages) :
        /\ Len(messages[j].tool_calls) = 3
        /\ Len(messages) = j + 3
        /\ \A k \in 1..3 : messages[j + k].tool_call_id = messages[j].tool_calls[k].id

C4_BadToolName ==
  [][ pc = "invoke_tools" =>
        LET tool_calls == PendingCalls
            n == Len(messages)
        IN  /\ tool_execs' - tool_execs <= Cardinality(Registered(tool_calls))
            /\ Registered(tool_calls) = {} =>
                 /\ pc' \in {"invoke_tools", "call_tools_llm"}
                 /\ tool_execs' = tool_execs
                 /\ collab_calls' = collab_calls
            /\ pc' = "call_tools_llm" =>
                 /\ tool_execs' = tool_execs + Cardinality(Registered(tool_calls))
                 /\ \A i \in DOMAIN tool_calls :
                       i \notin Registered(tool_calls) =>
                          /\ messages'[n + i].content = <<"bad tool name, retry">>
                          /\ messages'[n + i].tool_call_id = tool_calls[i].id
                          /\ messages'[n + i].type = "tool"
                 /\ \A i \in Registered(tool_calls) :
                       messages'[n + i].content # <<"bad tool name, retry">>
    ]_vars

\* a round with a bad name between two registered tools has been answered
C4_Witness ==
  /\ pc = "call_tools_llm"
  /\ tool_execs = 2
  /\ Len(messages) = 5
  /\ messages[4].name = "weather_finder"
  /\ messages[4].content = <<"bad tool name, retry">>
  /\ messages[3].name = "flights_finder" /\ IsJson(messages[3].content)
  /\ messages[5].name = "hotels_finder" /\ IsJson(messages[5].content)

(* ================== properties of one process_query call =============== *)

\* the graph has ended after a first decision without ToolCalls
FirstDecisionFinal ==
  /\ Len(messages) = 2
  /\ messages[2].type = "ai"
  /\ messages[2].tool_calls = <<>>

\* C5 as the specification states it: without ToolCalls in the first decision
\* there is exactly one oracle call, no tool execution, no collaborator call,
\* and the final answer process_query returns is the text of the oracle, verbatim.
C5_FinalAnswerVerbatim ==
  (pc = "done" /\ FirstDecisionFinal /\ result # <<>>) =>
     /\ oracle_calls = 1
     /\ tool_execs = 0
     /\ collab_calls = <<>>
     /\ Last(result).content = Last(messages).content

\* C5: without ToolCalls in the first decision there is exactly one oracle
\* call, no tool execution and no collaborator call; the final message
\* process_query holds is the text of the oracle after clean_html_content (HTML
\* tags, pre elements and code spans removed, the rest trimmed), and the page
\* shows the header and the card "Travel Information".
C5_FinalAnswerCleaned ==
  (FirstDecisionFinal /\ pc \in {END, "done"}) =>
     /\ oracle_calls = 1
     /\ tool_execs = 0
     /\ collab_calls = <<>>
     /\ pc = "done" =>
          /\ Len(result) = 2
          /\ Last(result).content = clean_html_content(Last(messages).content)
          /\ page = <<Header, TravelInformation>>

\* the oracle answered with marked-up text and no ToolCalls; the text came out changed
C5_Witness ==
  /\ pc = "done"
  /\ FirstDecisionFinal
  /\ oracle_calls = 1
  /\ Last(result).content = <<"Top picks">>
  /\ Last(messages).content # Last(result).content

\* a run of two decisions: ToolCalls in the first, none in the second
TwoDecisions ==
  /\ Len(messages) >= 3
  /\ Cardinality(AiPositions(messages)) = 2
  /\ messages[2].type = "ai"
  /\ messages[2].tool_calls # <<>>
  /\ Last(messages).type = "ai"
  /\ Last(messages).tool_calls = <<>>

DurbanToHarare ==
  [engine       |-> "google_flights",
   departure_id |-> <<"D","U","R">>,
   arrival_id   |-> <<"H","R","E">>,
   type         |-> "2",
   return_date  |-> <<"None">>]

IsFlightDurbanHarare(tool_call) ==
  /\ tool_call.name = "flights_finder"
  /\ tool_call.args.schema_ok
  /\ tool_call.args.params.departure_location = <<"D","u","r","b","a","n">>
  /\ tool_call.args.params.arrival_location = <<"H","a","r","a","r","e">>
  /\ tool_call.args.params.return_date = <<>>

\* C6: when the oracle returns ToolCalls in its first decision and none in its
\* second, the oracle is called exactly twice and every ToolCall of the first
\* message is dispatched exactly once before the graph ends: one tool message
\* per ToolCall, one tool execution per registered name, none for a name
\* outside the registry; a single flight ToolCall Durban to Harare makes
\* exactly one flight search, for DUR to HRE.
C6_TwoDecisions ==
  TwoDecisions =>
     LET tool_calls == messages[2].tool_calls
     IN  /\ pc \in {END, "done"}
         /\ oracle_calls = 2
         /\ Len(messages) = 3 + Len(tool_calls)
         /\ \A i \in DOMAIN tool_calls :
               /\ messages[2 + i].type = "tool"
               /\ messages[2 + i].tool_call_id = tool_calls[i].id
         /\ tool_execs = Cardinality(Registered(tool_calls))
         /\ Len(collab_calls) <= tool_execs
         /\ (Len(tool_calls) = 1 /\ IsFlightDurbanHarare(tool_calls[1])) =>
               /\ tool_execs = 1
               /\ Len(collab_calls) = 1
               /\ collab_calls[1].params = DurbanToHarare
         /\ Registered(tool_calls) = {} =>
               tool_execs = 0 /\ collab_calls = <<>>

\* the single flight ToolCall Durban to Harare was dispatched and the graph ended
C6_Witness ==
  /\ pc = END
  /\ TwoDecisions
  /\ Len(messages[2].tool_calls) = 1
  /\ IsFlightDurbanHarare(messages[2].tool_calls[1])
  /\ oracle_calls = 2
  /\ tool_execs = 1
  /\ Len(collab_calls) = 1

(* ------------------------- what the tools answer ----------------------- *)

ValidCall(tool_call) == tool_call.name \in TOOLS /\ tool_call.args.schema_ok

IsFlightCall(tool_call) == ValidCall(tool_call) /\ tool_call.name = "flights_finder"

IsHotelCall(tool_call) == ValidCall(tool_call) /\ tool_call.name = "hotels_finder"

\* the location text of a flight ToolCall that has no airport code, the
\* departure first; <<>> when both have one
UnresolvedText(tool_call) ==
  IF AirportCodeOf[tool_call.args.params.departure_location] = None
  THEN <<"departure location", tool_call.args.params.departure_location>>
  ELSE IF AirportCodeOf[tool_call.args.params.arrival_location] = None
  THEN <<"arrival location", tool_call.args.params.arrival_location>>
  ELSE <<>>

UnresolvedFlight(tool_call) == IsFlightCall(tool_call) /\ UnresolvedText(tool_call) # <<>>

UnresolvedHotel(tool_call) ==
  IsHotelCall(tool_call) /\ LocationInfoOf[tool_call.args.params.location].airport_code = None

\* a tool answer that is a structured error with an empty result list
IsErrorWithEmptyList(content) ==
  /\ IsJson(content)
  /\ content[2].py = "dict"
  /\ "error" \in DOMAIN content[2].fields
  /\ \E k \in DOMAIN content[2].fields \ {"error"} : content[2].fields[k] = <<>>

\* the serpapi.search requests made in this step
NewCollabCalls == SubSeq(collab_calls', Len(collab_calls) + 1, Len(collab_calls'))

\* the positions of the ToolCalls that reach serpapi.search, in order
Searching(tool_calls) ==
  SelectSeq([i \in DOMAIN tool_calls |-> i],
            LAMBDA i : IsHotelCall(tool_calls[i])
                       \/ (IsFlightCall(tool_calls[i]) /\ ~UnresolvedFlight(tool_calls[i])))

FailedWith(new, k, errors) == new[k].outcome \in errors

\* C8 as the specification states it: a transport or provider failure of the
\* collaborator is caught inside the tool and the ToolResult carries an empty
\* result list.
C8_FailureEmptyList ==
  [][ (pc = "invoke_tools" /\ pc' = "call_tools_llm") =>
        LET tool_calls == PendingCalls
            n == Len(messages)
            searching == Searching(tool_calls)
            new == NewCollabCalls
        IN  \A k \in DOMAIN new :
               FailedWith(new, k, {"SerpApiError"}) =>
                  /\ IsJson(messages'[n + searching[k]].content)
                  /\ messages'[n + searching[k]].content[2].py = "list"
                  /\ messages'[n + searching[k]].content[2].items = <<>>
    ]_vars

\* C8: when the collaborator raises, the flight search catches every exception
\* and the hotel search catches serpapi.SerpApiError; the ToolResult then
\* carries a list of three fixed sample records (sample flights between the
\* two resolved airports, or sample hotels at the requested location), not an
\* empty list.
C8_FailureSampleRecords ==
  [][ (pc = "invoke_tools" /\ pc' = "call_tools_llm") =>
        LET tool_calls == PendingCalls
            n == Len(messages)
            searching == Searching(tool_calls)
            new == NewCollabCalls
        IN  /\ Len(new) = Len(searching)
            /\ \A k \in DOMAIN new :
                 LET tool_call == tool_calls[searching[k]]
                     content == messages'[n + searching[k]].content
                 IN  /\ (IsFlightCall(tool_call) /\ FailedWith(new, k, {"SerpApiError", "OtherError"})) =>
                          /\ IsJson(content)
                          /\ content[2].py = "list"
                          /\ Len(content[2].items) = 3
                          /\ \A r \in DOMAIN content[2].items :
                                /\ content[2].items[r].flight_number \in {"6E 6214", "6E 2189", "IX 1243"}
                                /\ content[2].items[r].departure_airport = new[k].params.departure_id
                                /\ content[2].items[r].arrival_airport = new[k].params.arrival_id
                     /\ (IsHotelCall(tool_call) /\ FailedWith(new, k, {"SerpApiError"})) =>
                          /\ IsJson(content)
                          /\ content[2].py = "list"
                          /\ Len(content[2].items) = 3
                          /\ \A r \in DOMAIN content[2].items :
                                /\ content[2].items[r].name \in
                                     {"Grand Plaza Hotel", "City Center Inn", "Luxury Resort & Spa"}
                                /\ content[2].items[r].location = tool_call.args.params.location
    ]_vars

\* both searches failed with SerpApiError in one process call and both were answered
C8_Witness ==
  /\ pc = "call_tools_llm"
  /\ \E a, b \in DOMAIN collab_calls :
        /\ collab_calls[a].outcome = "SerpApiError"
        /\ collab_calls[a].params.engine = "google_flights"
        /\ collab_calls[b].outcome = "SerpApiError"
        /\ collab_calls[b].params.engine = "google_hotels"
  /\ Last(messages).type = "tool"
  /\ IsJson(Last(messages).content)
  /\ Len(Last(messages).content[2].items) = 3

\* C9 as the specification states it: a tool execution never raises past the
\* dispatcher, so every step of invoke_tools hands its results to the decision step.
C9_ToolNeverRaises ==
  [][ pc = "invoke_tools" => pc' \in {"invoke_tools", "call_tools_llm"} ]_vars

\* C10: when the oracle raises, whether in the first or in a later decision,
\* the process call fails: the page holds the error card with the cause and
\* nothing else (no header, no travel card), no message is added, process_query
\* holds no result, and no decision or tool step runs until a new process call.
C10_OracleFault ==
  [][ /\ (pc = "call_tools_llm" /\ oracle_calls' = oracle_calls + 1 /\ messages' = messages) =>
           /\ pc' = "done"
           /\ \E fault \in {"ResourceExhausted: quota", "ServiceUnavailable: 503"} :
                 page' = << [kind |-> "error", text |-> <<"Error: ", fault>>, data |-> <<>>] >>
           /\ result' = <<>>
           /\ tool_execs' = tool_execs
           /\ collab_calls' = collab_calls
      /\ (pc = "done" /\ Len(page) = 1 /\ page[1].kind = "error") =>
           \/ UNCHANGED <<messages, oracle_calls, tool_execs, collab_calls, page>>
           \/ oracle_calls' = 0 /\ tool_execs' = 0 /\ collab_calls' = <<>>
    ]_vars

\* the oracle raised in its second decision, after a tool round
C10_Witness ==
  /\ pc = "done"
  /\ oracle_calls = 2
  /\ tool_execs >= 1
  /\ Last(messages).type = "tool"
  /\ page = << [kind |-> "error", text |-> <<"Error: ", "ServiceUnavailable: 503">>, data |-> <<>>] >>

(* ============================ input validation ========================= *)

\* str.strip() of a text of tokens leaves nothing: the text is empty or blanks only
IsBlank(text) == \A i \in DOMAIN text : text[i] \in {" ", "\t"}

\* C11: an input that is empty or whitespace-only is rejected by process_query
\* with the validation message and no round is started: no thread is created,
\* no message list is built and neither the oracle nor a tool is invoked.
C11_BlankInputRejected ==
  (pc # "idle" /\ IsBlank(user_input)) =>
     /\ pc = "done"
     /\ page = <<MissingCard>>
     /\ messages = <<>>
     /\ oracle_calls = 0
     /\ tool_execs = 0

(* ===================== airport codes as tool arguments ================= *)

\* a text of three letters: the shape of an IATA airport code
ThreeLetters(text) ==
  /\ text # None
  /\ Len(text) = 3
  /\ \A i \in 1..3 : text[i] \in Range(UpperCase) \cup Range(LowerCase)

\* a flight ToolCall whose two locations are airport codes already
FlightCallWithCodes(tool_call) ==
  /\ IsFlightCall(tool_call)
  /\ ThreeLetters(tool_call.args.params.departure_location)
  /\ ThreeLetters(tool_call.args.params.arrival_location)

\* C13: a flight ToolCall whose departure_location and arrival_location are
\* 3-letter airport codes is not answered with an error: each code resolves to
\* itself and the flight collaborator is called with the two codes as
\* departure_id and arrival_id.
C13_AirportCodesAccepted ==
  [][ (pc = "invoke_tools" /\ pc' = "call_tools_llm") =>
        LET tool_calls == PendingCalls
            n == Len(messages)
            new == NewCollabCalls
        IN  \A i \in DOMAIN tool_calls :
               FlightCallWithCodes(tool_calls[i]) =>
                  /\ ~IsErrorWithEmptyList(messages'[n + i].content)
                  /\ \E k \in DOMAIN new :
                        /\ new[k].params.engine = "google_flights"
                        /\ new[k].params.departure_id = upper(tool_calls[i].args.params.departure_location)
                        /\ new[k].params.arrival_id = upper(tool_calls[i].args.params.arrival_location)
    ]_vars

(* ====================== sessions and their settings ==================== *)

\* sort_by of a hotel search under the settings of a session, for a ToolCall
\* that leaves sort_by at its default
SortByUnder(settings) ==
  IF settings.HOTELS_SORT_BY_OVERRIDE # "" THEN settings.HOTELS_SORT_BY_OVERRIDE ELSE "8"

\* C23: no mutable state is shared across sessions: whatever another session
\* does, its settings included, every hotel search of this session is sent with
\* the sort_by that this session's own settings and ToolCall give.
C23_SessionsIsolated ==
  \A k \in DOMAIN collab_calls :
     collab_calls[k].params.engine = "google_hotels"
        => collab_calls[k].params.sort_by = SortByUnder(SessionSettings)

\* C27: the settings stored in os.environ apply to new searches: a flight
\* search sends the trip type stored as FLIGHTS_TYPE_OVERRIDE, and a hotel
\* search sends a non-empty HOTELS_SORT_BY_OVERRIDE as its sort_by.
C27_SettingsApply ==
  [][ (pc = "invoke_tools" /\ environ' = environ) =>
        LET new == NewCollabCalls
        IN  \A k \in DOMAIN new :
               /\ new[k].params.engine = "google_flights"
                     => new[k].params.type = environ.FLIGHTS_TYPE_OVERRIDE
               /\ (new[k].params.engine = "google_hotels" /\ environ.HOTELS_SORT_BY_OVERRIDE # "")
                     => new[k].params.sort_by = environ.HOTELS_SORT_BY_OVERRIDE
    ]_vars

IsPrefixOf(shorter, longer) ==
  /\ Len(shorter) <= Len(longer)
  /\ SubSeq(longer, 1, Len(shorter)) = shorter

\* C24: while the graph runs the history only grows by appending: each decision
\* step and each tool step keeps the previous history as a prefix, a decision
\* step that returns appends one message, a tool step that returns appends one
\* message per ToolCall of the round.
C24_AppendOnly ==
  [][ (pc \in {"call_tools_llm", "invoke_tools"}) =>
        ( /\ IsPrefixOf(messages, messages')
          /\ ((pc = "call_tools_llm" /\ pc' # "done") => (Len(messages') = Len(messages) + 1))
          /\ ((pc = "invoke_tools" /\ pc' = "call_tools_llm") =>
                 (Len(messages') = Len(messages) + Len(Last(messages).tool_calls))) ) ]_vars

\* a round of three ToolCalls has been answered with three messages
C24_Witness ==
  /\ pc = "call_tools_llm"
  /\ Len(messages) = 5
  /\ Len(messages[2].tool_calls) = 3

\* C25: a process call starts a new thread whose history is the new user
\* message alone; the input of the oracle at each decision step is the system
\* prompt followed by the whole history; the history never holds a system
\* message nor a user message other than the one of the current call.
C25_FreshThread ==
  [][ /\ ((pc \in {"idle", "done"} /\ pc' = "call_tools_llm") =>
             (thread_id' > thread_id /\ messages' = <<HumanMessage(user_input')>>))
      /\ ((pc = "call_tools_llm" /\ oracle_calls' # oracle_calls) =>
             (llm_input' = <<SystemMessage(TOOLS_SYSTEM_PROMPT)>> \o messages))
      /\ (\A i \in DOMAIN messages' :
             /\ messages'[i].type # "system"
             /\ (messages'[i].type = "human") <=> (i = 1)
             /\ (i = 1) => (messages'[i] = HumanMessage(user_input'))) ]_vars

\* the oracle has decided twice in the second thread of the session
C25_Witness ==
  /\ thread_id = 2
  /\ oracle_calls = 2
  /\ Len(llm_input) >= 4
  /\ llm_input[1] = SystemMessage(TOOLS_SYSTEM_PROMPT)

\* C26: a flight search is sent as one way ("2") without a return_date exactly
\* when the return_date of the ToolCall is absent, empty or blank; otherwise it
\* is sent as round trip ("1") with the return_date as given.
C26_OneWayByReturnDate ==
  [][ (/\ pc = "invoke_tools"
       /\ Len(Last(messages).tool_calls) = 1
       /\ IsFlightCall(Last(messages).tool_calls[1])
       /\ Len(NewCollabCalls) = 1) =>
      LET return_date == Last(messages).tool_calls[1].args.params.return_date
          sent        == NewCollabCalls[1].params
      IN  IF return_date = None \/ IsBlank(return_date)
          THEN sent.type = "2" /\ sent.return_date = None
          ELSE sent.type = "1" /\ sent.return_date = return_date ]_vars

\* a search with a return date has been sent as round trip
C26_Witness ==
  /\ Len(messages) >= 2
  /\ Len(messages[2].tool_calls) = 1
  /\ messages[2].tool_calls[1].name = "flights_finder"
  /\ Len(collab_calls) = 1
  /\ collab_calls[1].params.engine = "google_flights"
  /\ collab_calls[1].params.type = "1"
  /\ collab_calls[1].params.return_date = ReturnDate

\* C28: a flight search reaches the collaborator only for a ToolCall whose two
\* locations both have an airport code, with exactly these codes as
\* departure_id and arrival_id; no returned flight record carries the codes BBI
\* or VTZ in place of an unresolved location; and when neither location has a
\* code the error names the departure location.
C28_NoDefaultCode ==
  [][ (pc = "invoke_tools" /\ pc' = "call_tools_llm") =>
        LET tool_calls == PendingCalls
            n == Len(messages)
            searching == Searching(tool_calls)
            new == NewCollabCalls
        IN  /\ Len(new) = Len(searching)
            /\ \A k \in DOMAIN new :
                  IsFlightCall(tool_calls[searching[k]]) =>
                     LET asked == tool_calls[searching[k]].args.params
                     IN  /\ Truthy(new[k].params.departure_id)
                         /\ Truthy(new[k].params.arrival_id)
                         /\ new[k].params.departure_id = AirportCodeOf[asked.departure_location]
                         /\ new[k].params.arrival_id = AirportCodeOf[asked.arrival_location]
            /\ \A i \in DOMAIN tool_calls :
                  IsFlightCall(tool_calls[i]) =>
                     LET asked == tool_calls[i].args.params
                         answer == messages'[n + i].content[2]
                     IN  /\ \A j \in DOMAIN answer.items :
                               /\ answer.items[j].departure_airport = AirportCodeOf[asked.departure_location]
                               /\ answer.items[j].arrival_airport = AirportCodeOf[asked.arrival_location]
                               /\ answer.items[j].departure_airport # BBI
                               /\ answer.items[j].arrival_airport # VTZ
                         /\ (/\ ~Truthy(AirportCodeOf[asked.departure_location])
                             /\ ~Truthy(AirportCodeOf[asked.arrival_location])) =>
                               (/\ answer.py = "dict"
                                /\ answer.fields.error =
                                     <<"Could not find airport code for", "departure location",
                                       asked.departure_location>>)
    ]_vars

\* a search for Durban to Harare that found nothing was answered with the
\* sample flights, which carry the codes of the two cities
C28_Witness ==
  /\ pc = "call_tools_llm"
  /\ Len(messages) >= 3
  /\ Len(collab_calls) >= 1
  /\ collab_calls[1].outcome = "empty"
  /\ collab_calls[1].params.departure_id = <<"D","U","R">>
  /\ collab_calls[1].params.arrival_id = <<"H","R","E">>
  /\ messages[3].name = "flights_finder"
  /\ messages[3].content[2].py = "list"
  /\ Len(messages[3].content[2].items) = 5
  /\ messages[3].content[2].items[1].departure_airport = <<"D","U","R">>

\* the ToolCalls up to position i that name a registered tool
ExecutedUpTo(tool_calls, i) == {j \in 1..i : tool_calls[j].name \in TOOLS}

\* C29: when a tool raises during a round, the history is left as it was (the
\* results computed for earlier ToolCalls of the round are dropped), the tools
\* after the raising one are not run, the oracle is not asked again, and
\* process_query shows the fault as an error.
C29_RoundAtomic ==
  [][ (pc = "invoke_tools" /\ pc' # "invoke_tools" /\ pc' # "call_tools_llm") =>
        LET tool_calls == PendingCalls
            new == NewCollabCalls
        IN  /\ messages' = messages
            /\ pc' = "done"
            /\ oracle_calls' = oracle_calls
            /\ result' = <<>>
            /\ Len(page') = Len(page) + 1
            /\ page'[Len(page')].kind = "error"
            /\ \E i \in DOMAIN tool_calls :
                  /\ tool_calls[i].name \in TOOLS
                  /\ \A j \in 1..(i - 1) : tool_calls[j].name \in TOOLS => tool_calls[j].args.schema_ok
                  /\ tool_execs' = tool_execs + Cardinality(ExecutedUpTo(tool_calls, i))
                  /\ Len(new) = Len(SelectSeq(Searching(tool_calls), LAMBDA j : j <= i))
                  /\ IF tool_calls[i].args.schema_ok
                     THEN /\ tool_calls[i].name = "hotels_finder"
                          /\ new[Len(new)].outcome \in {"OtherError", "malformed"}
                     ELSE page'[Len(page')].text = <<"Error: ", "ValidationError: params">>
    ]_vars

\* the second of three ToolCalls raised after the first had searched: the
\* history still ends with the oracle message and the third tool never ran
C29_Witness ==
  /\ pc = "done"
  /\ Len(messages) = 2
  /\ Len(messages[2].tool_calls) = 3
  /\ ~messages[2].tool_calls[2].args.schema_ok
  /\ tool_execs = 2
  /\ Len(collab_calls) = 1
  /\ page # <<>>
  /\ page[Len(page)].kind = "error"

\* the tool messages of a tool in a message list
AnswersOf(ms, name) == {i \in DOMAIN ms : ms[i].type = "tool" /\ ms[i].name = name /\ IsJson(ms[i].content)}

\* C30: when every flights_finder result of the call is an error object and a
\* hotels_finder result is a non-empty list, process_query shows the hotel
\* cards, at most six, and the 'No Flights Found' card, and writes no error.
C30_RenderOnlyLists ==
  (/\ pc = "done"
   /\ result # <<>>
   /\ AnswersOf(result, "flights_finder") # {}
   /\ \A i \in AnswersOf(result, "flights_finder") : result[i].content[2].py = "dict"
   /\ \E i \in AnswersOf(result, "hotels_finder") :
         result[i].content[2].py = "list" /\ result[i].content[2].items # <<>>)
  => /\ \A k \in DOMAIN page : page[k].kind # "error"
     /\ \E k \in DOMAIN page : page[k] = NoFlightsFound
     /\ Cardinality({k \in DOMAIN page : page[k].kind = "hotel_card"}) \in 1..CardLimit

(* ====================== properties of the resolver ===================== *)

\* the resolver operations have been applied to the text in resolving
Resolved == resolver_pc \in {"resolved", "canonical", "alias", "again"}

NYC == <<"N","Y","C">>

\* C12: for every text that is exactly three letters once trimmed (in either
\* case), standardize_location_input returns the trimmed text as original and
\* its upper-cased form as airport_code, normalized and canonical_name, with
\* is_airport_code true and no alternatives. The tables and fuzzy matching have
\* no say: the result is the upper-cased text also for nyc, usa and uae, which
\* the tables map to JFK and DXB.
C12_CodePassthrough ==
  (Resolved /\ ThreeLetters(strip(resolving))) =>
     resolution.info = [original        |-> strip(resolving),
                        normalized      |-> upper(strip(resolving)),
                        airport_code    |-> upper(strip(resolving)),
                        canonical_name  |-> upper(strip(resolving)),
                        is_airport_code |-> TRUE,
                        alternatives    |-> <<>>]

\* a padded lower-case text that is a key of the tables went through unchanged
C12_Witness ==
  /\ resolver_pc = "resolved"
  /\ resolving = <<" ", " ", "n", "y", "c">>
  /\ resolution.info.airport_code = NYC
  /\ resolution.info.is_airport_code
  /\ resolution.airport_code = JFK

\* C14: for every alias a of the alias table with canonical city c,
\* standardize_location_input(a) and standardize_location_input(c) carry the
\* same airport code.
C14_AliasSameCode ==
  resolver_pc = "alias" =>
     resolution.info.airport_code = earlier.resolution.info.airport_code

\* C15: for every text whose resolution has a canonical_name, resolving the
\* canonical_name again gives the airport code, the canonical_name and the
\* alternatives that the resolution of the text gave.
C15_IdempotentThroughCanonical ==
  resolver_pc = "canonical" =>
     /\ resolution.info.airport_code = earlier.resolution.info.airport_code
     /\ resolution.info.canonical_name = earlier.resolution.info.canonical_name
     /\ resolution.info.alternatives = earlier.resolution.info.alternatives

\* the characters the normalisation is stated to keep
StatedKept(c) ==
  c \in Range(LowerCase) \cup Range(UpperCase) \cup Range(Digits) \/ IsSpace(c) \/ c = "-" \/ c = "'"

\* the normalisation as stated: lower case, the abbreviations st. and mt.
\* expanded, every other character than letters, digits, spaces, hyphens and
\* apostrophes removed, whitespace collapsed, the ends trimmed
NormalizeAsStated(text) ==
  IF ~Truthy(text) THEN <<>>
  ELSE LET expanded == replace(replace(lower(text), <<"s","t",".">>, <<"s","a","i","n","t">>),
                               <<"m","t",".">>, <<"m","o","u","n","t">>)
       IN  strip(CollapseSpaces(SelectSeq(expanded, StatedKept)))

\* C16: normalize_city_name lower-cases the text, keeps letters, digits,
\* spaces, hyphens and apostrophes only, collapses whitespace, trims the ends
\* and expands st. to saint and mt. to mount, so that St. Louis becomes
\* saint louis.
C16_NormalizeExpands ==
  Resolved => resolution.normalized = NormalizeAsStated(resolving)

\* the code a key of the tables stands for: city table, then country table,
\* then alias table through the city table
KeyCode(key) ==
  IF key \in DOMAIN city_to_airport THEN city_to_airport[key]
  ELSE IF key \in DOMAIN country_to_airport THEN country_to_airport[key]
  ELSE IF key \in DOMAIN city_aliases /\ city_aliases[key] \in DOMAIN city_to_airport
       THEN city_to_airport[city_aliases[key]]
  ELSE None

ADD == <<"A","D","D">>

\* C17: get_airport_code returns the code of the first step that matches the
\* normalized text: the city table, else the country table, else the alias
\* table through the city table; only a text that is in none of the three
\* tables is left to fuzzy recovery, and then the code is null or the code of
\* some other key. (Every alias key of the program is also a city key with the
\* code of its canonical city, so the alias step never decides on its own.)
C17_LookupOrder ==
  (Resolved /\ Truthy(resolving)) =>
     LET n == resolution.normalized
         code == resolution.airport_code
     IN  /\ n \in DOMAIN city_to_airport => code = city_to_airport[n]
         /\ (n \notin DOMAIN city_to_airport /\ n \in DOMAIN country_to_airport)
               => code = country_to_airport[n]
         /\ (n \notin DOMAIN city_to_airport /\ n \notin DOMAIN country_to_airport
               /\ n \in DOMAIN city_aliases /\ city_aliases[n] \in DOMAIN city_to_airport)
               => code = city_to_airport[city_aliases[n]]
         /\ n \notin all_locations
               => \/ code = None
                  \/ \E key \in all_locations : code = KeyCode(key)

\* a country name that is in no city table was resolved by the second step
C17_Witness ==
  /\ resolver_pc = "resolved"
  /\ resolving = <<"E","t","h","i","o","p","i","a">>
  /\ resolution.normalized \notin DOMAIN city_to_airport
  /\ resolution.normalized \in DOMAIN country_to_airport
  /\ resolution.airport_code = ADD

\* the similarity of every key to a normalized text, as <<2 * matches, total length>>
SimilarityTo(normalized) == [key \in all_locations |-> ratio(key, normalized)]

\* the keys at similarity 0.8 or more in sim
CloseKeys(sim) == {key \in DOMAIN sim : 5 * sim[key][1] >= 4 * sim[key][2]}

\* the keys of a set that no key of the set beats in sim
BestKeys(sim, keys) ==
  {key \in keys : \A other \in keys : sim[other][1] * sim[key][2] <= sim[key][1] * sim[other][2]}

\* code is what fuzzy recovery is stated to give for the similarities sim
FuzzyAgrees(code, sim, close) ==
  /\ close # {} => code # None /\ code \in {KeyCode(key) : key \in BestKeys(sim, close)}
  /\ close = {} => code = None

NRT == <<"N","R","T">>

\* C18: get_airport_code returns a code exactly when some key of the city,
\* country and alias tables has similarity 2 * matches / total length of 0.8 or
\* more to the normalized text, and the code is then the one a best-matching
\* key stands for; when every key is below 0.8 the code is null.
C18_FuzzyThreshold ==
  Resolved =>
     LET sim == SimilarityTo(resolution.normalized)
     IN  FuzzyAgrees(resolution.airport_code, sim, CloseKeys(sim))

\* a text at similarity exactly 8/10 to the key tokyo was recovered
C18_Witness ==
  /\ resolver_pc = "resolved"
  /\ resolving = <<"t","o","k","i","o">>
  /\ resolution.normalized \notin all_locations
  /\ ratio(<<"t","o","k","y","o">>, resolution.normalized) = <<8, 10>>
  /\ resolution.airport_code = NRT

JNB == <<"J","N","B">>

DUR == <<"D","U","R">>

HRE == <<"H","R","E">>

\* the code each documented scenario is stated to resolve to
ScenarioCode(text) ==
  CASE text = <<"J","o","'","b","u","r","g">> -> JNB
    [] text = <<"j","o","h","a","n","n","e","s","b","u","r","g">> -> JNB
    [] text = <<"E","t","h","i","o","p","i","a">> -> ADD
    [] text = <<"d","u","r","b","a","n">> -> DUR
    [] text = <<"h","a","r","a","r","e">> -> HRE
    [] text = <<"x","y","l","a","n","d">> -> None

\* C19: the documented scenarios resolve as stated, through get_airport_code,
\* get_standardized_city_info and standardize_location_input alike: Jo'burg
\* and johannesburg to JNB, Ethiopia to ADD, durban to DUR, harare to HRE, and
\* xyland, which matches no key and is within 0.8 of none, to a null code.
C19_Scenarios ==
  (Resolved /\ resolving \in ScenarioTexts) =>
     /\ resolution.airport_code = ScenarioCode(resolving)
     /\ resolution.city_info[2] = ScenarioCode(resolving)
     /\ resolution.info.airport_code = ScenarioCode(resolving)
     /\ ~resolution.info.is_airport_code

\* the alias with an apostrophe was resolved to the code of its canonical city
C19_Witness ==
  /\ resolver_pc = "resolved"
  /\ resolving = <<"J","o","'","b","u","r","g">>
  /\ resolution.normalized = <<"j","o","'","b","u","r","g">>
  /\ resolution.info.canonical_name = <<"j","o","h","a","n","n","e","s","b","u","r","g">>
  /\ resolution.info.airport_code = JNB

\* the all-empty resolution
EmptyResolution ==
  [original |-> <<>>, normalized |-> <<>>, airport_code |-> None,
   canonical_name |-> <<>>, is_airport_code |-> FALSE, alternatives |-> <<>>]

\* C20: for the empty text and for None every resolver operation returns a
\* value and none raises: normalize_city_name the empty text,
\* get_airport_code None, get_standardized_city_info three times None,
\* get_alternative_airports no alternatives, is_valid_airport_code false, and
\* standardize_location_input the all-empty resolution; a text of blanks only
\* gets the all-empty resolution as well.
C20_EmptyInput ==
  /\ (Resolved /\ resolving \in {<<>>, None}) =>
        /\ resolution.normalized = <<>>
        /\ resolution.airport_code = None
        /\ resolution.city_info = <<None, None, None>>
        /\ resolution.alternatives = <<>>
        /\ resolution.valid = FALSE
        /\ resolution.info = EmptyResolution
  /\ (Resolved /\ resolving \in EmptyTexts) => resolution.info = EmptyResolution

\* None went through the six operations
C20_Witness ==
  /\ resolver_pc = "resolved"
  /\ resolving = None
  /\ resolution.normalized = <<>>
  /\ resolution.info = EmptyResolution

ListedAlternatives(canonical) ==
  IF canonical \in DOMAIN alternative_airports THEN alternative_airports[canonical] ELSE <<>>

\* C22: get_alternative_airports returns the multi-airport list of the
\* canonical city, which is the normalized text folded through the alias
\* table, and the empty list when that city has no entry; an alias and its
\* canonical city get the same list, and the empty text and None get the
\* empty list.
C22_Alternatives ==
  /\ Resolved =>
        resolution.alternatives =
           ListedAlternatives(IF resolution.normalized \in DOMAIN city_aliases
                              THEN city_aliases[resolution.normalized]
                              ELSE resolution.normalized)
  /\ resolver_pc = "alias" => resolution.alternatives = earlier.resolution.alternatives
  /\ (Resolved /\ resolving \in {<<>>, None}) => resolution.alternatives = <<>>

\* the alias nyc and its canonical city new york got the same three airports
C22_Witness ==
  /\ resolver_pc = "alias"
  /\ earlier.text = <<"n","y","c">>
  /\ resolving = <<"n","e","w"," ","y","o","r","k">>
  /\ Len(resolution.alternatives) = 3
  /\ earlier.resolution.alternatives = resolution.alternatives
====
